---------------------------- MODULE Spec2Model ----------------------------
(***************************************************************************)
(* A model of the ya-md5 streaming MD5 engine: the word codec              *)
(* (conversions.rs), the 64-byte Chunk (chunk.rs), the compression state   *)
(* (hash_compute_state.rs), the ChunkProcessor segmenter with its padding  *)
(* (chunk_processor.rs), the Hash display (hash.rs) and the reader-based   *)
(* ChunkProvider / Md5Hasher of lib.rs.                                    *)
(*                                                                         *)
(* Machine integers are kept at their width.  A u8 is a number in 0..255.  *)
(* A u32 is the pair <<hi, lo>> of its 16-bit halves and a u64 the tuple   *)
(* <<w3, w2, w1, w0>> of its 16-bit limbs, most significant first, so that *)
(* every intermediate value stays inside the range of the model checker's  *)
(* integers while the arithmetic is exactly that of the machine.           *)
(*                                                                         *)
(* Specifications: Spec, a caller hashing one input by ChunkProcessor or   *)
(* by Md5Hasher::hash; SpecNearWrap, the same with the bit counter close   *)
(* to 2^64; SpecReads, the loop of Md5Hasher::hash over an input whose     *)
(* reads may be short or fail; SpecHasher, Md5Hasher by new, add_chunk and *)
(* compute; SpecEngines, two processors with interleaved calls;            *)
(* SpecTryFrom, Chunk::try_from on slices of every length; SpecSteps, the  *)
(* steps of advance_step taken one by one; SpecLoop, Md5Hasher::hash alone *)
(* with its loop taken to run until it returns.                            *)
(***************************************************************************)
EXTENDS Integers, Sequences, FiniteSets, TLC

(***************************************************************************)
(* Machine words                                                           *)
(***************************************************************************)
Two16 == 2 ^ 16

U32(hi, lo) == <<hi, lo>>

U64(w3, w2, w1, w0) == <<w3, w2, w1, w0>>

\* Bitwise tables over pairs of 4-bit digits p, q: entry p * 16 + q + 1 of a
\* tuple of 256 entries.
NibbleBit(n, i) == (n \div (2 ^ i)) % 2

\* One bit of x and one bit of y under the operation named op.
BitOp(op, x, y) ==
  CASE op = "and" -> x * y
    [] op = "or" -> x + y - x * y
    [] op = "xor" -> (x + y) % 2

NibbleOp(op, p, q) ==
  BitOp(op, NibbleBit(p, 0), NibbleBit(q, 0))
  + 2 * BitOp(op, NibbleBit(p, 1), NibbleBit(q, 1))
  + 4 * BitOp(op, NibbleBit(p, 2), NibbleBit(q, 2))
  + 8 * BitOp(op, NibbleBit(p, 3), NibbleBit(q, 3))

AndTable ==
  [n \in 1..256 |-> NibbleOp("and", (n - 1) \div 16, (n - 1) % 16)] \o <<>>

OrTable ==
  [n \in 1..256 |-> NibbleOp("or", (n - 1) \div 16, (n - 1) % 16)] \o <<>>

XorTable ==
  [n \in 1..256 |-> NibbleOp("xor", (n - 1) \div 16, (n - 1) % 16)] \o <<>>

\* A bitwise operation on two 16-bit halves, four bits at a time.
Half(table, x, y) ==
  table[(x % 16) * 16 + (y % 16) + 1]
  + 16 * table[((x \div 16) % 16) * 16 + ((y \div 16) % 16) + 1]
  + 256 * table[((x \div 256) % 16) * 16 + ((y \div 256) % 16) + 1]
  + 4096 * table[(x \div 4096) * 16 + (y \div 4096) + 1]

Half16 == 0..(Two16 - 1)

\* The values of a u32.
Word == Half16 \X Half16

\* The word operations are functions: an argument is a value before the
\* operation is applied to it, as in the source.

\* u32 & u32
And32[x \in Word, y \in Word] ==
  U32(Half(AndTable, x[1], y[1]), Half(AndTable, x[2], y[2]))

\* u32 | u32
Or32[x \in Word, y \in Word] ==
  U32(Half(OrTable, x[1], y[1]), Half(OrTable, x[2], y[2]))

\* u32 ^ u32
Xor32[x \in Word, y \in Word] ==
  U32(Half(XorTable, x[1], y[1]), Half(XorTable, x[2], y[2]))

\* !u32
Not32[x \in Word] == U32(Two16 - 1 - x[1], Two16 - 1 - x[2])

\* u32::wrapping_add
wrapping_add[x \in Word, y \in Word] ==
  U32((x[1] + y[1] + ((x[2] + y[2]) \div Two16)) % Two16, (x[2] + y[2]) % Two16)

\* u32::rotate_left
rotate_left[x \in Word, s \in 0..31] ==
  LET y == IF s >= 16 THEN U32(x[2], x[1]) ELSE x
      r == s % 16
      p == 2 ^ r
      q == 2 ^ (16 - r)
  IN  U32(((y[1] * p) % Two16) + (y[2] \div q), ((y[2] * p) % Two16) + (y[1] \div q))

(***************************************************************************)
(* conversions.rs                                                          *)
(***************************************************************************)
\* (0xff << (index * 8) & value) >> (index * 8) of a u64, for the indices
\* 0..7 of its bytes, the only ones its callers give.
extract_u8(index, value) ==
  LET limb == value[4 - (index \div 2)]
  IN  IF index % 2 = 0 THEN limb % 256 ELSE limb \div 256

\* A faulty u64_to_u8: the most significant byte first.
u64_to_u8_big_endian(source) ==
  [index \in 1..8 |-> extract_u8(8 - index, source)]

u64_to_u8(source) == [index \in 1..8 |-> extract_u8(index - 1, source)]

\* A faulty u8_to_u32: the first byte taken as the most significant.
u8_to_u32_big_endian(source) ==
  U32(source[1] * 256 + source[2], source[3] * 256 + source[4])

u8_to_u32(source) ==
  U32(source[4] * 256 + source[3], source[2] * 256 + source[1])

\* *source as u64
U32AsU64(source) == U64(0, 0, source[1], source[2])

u32_to_u8(source) == [index \in 1..4 |-> extract_u8(index - 1, U32AsU64(source))]

(***************************************************************************)
(* hash_compute_state.rs                                                   *)
(***************************************************************************)
CHUNK_SIZE_BYTES == 64

BLOCK_SIZE_WORDS == CHUNK_SIZE_BYTES \div 4

SINE_TABLE ==
  <<
    U32(\hd76a, \ha478), U32(\he8c7, \hb756), U32(\h2420, \h70db), U32(\hc1bd, \hceee),
    U32(\hf57c, \h0faf), U32(\h4787, \hc62a), U32(\ha830, \h4613), U32(\hfd46, \h9501),
    U32(\h6980, \h98d8), U32(\h8b44, \hf7af), U32(\hffff, \h5bb1), U32(\h895c, \hd7be),
    U32(\h6b90, \h1122), U32(\hfd98, \h7193), U32(\ha679, \h438e), U32(\h49b4, \h0821),
    U32(\hf61e, \h2562), U32(\hc040, \hb340), U32(\h265e, \h5a51), U32(\he9b6, \hc7aa),
    U32(\hd62f, \h105d), U32(\h0244, \h1453), U32(\hd8a1, \he681), U32(\he7d3, \hfbc8),
    U32(\h21e1, \hcde6), U32(\hc337, \h07d6), U32(\hf4d5, \h0d87), U32(\h455a, \h14ed),
    U32(\ha9e3, \he905), U32(\hfcef, \ha3f8), U32(\h676f, \h02d9), U32(\h8d2a, \h4c8a),
    U32(\hfffa, \h3942), U32(\h8771, \hf681), U32(\h6d9d, \h6122), U32(\hfde5, \h380c),
    U32(\ha4be, \hea44), U32(\h4bde, \hcfa9), U32(\hf6bb, \h4b60), U32(\hbebf, \hbc70),
    U32(\h289b, \h7ec6), U32(\heaa1, \h27fa), U32(\hd4ef, \h3085), U32(\h0488, \h1d05),
    U32(\hd9d4, \hd039), U32(\he6db, \h99e5), U32(\h1fa2, \h7cf8), U32(\hc4ac, \h5665),
    U32(\hf429, \h2244), U32(\h432a, \hff97), U32(\hab94, \h23a7), U32(\hfc93, \ha039),
    U32(\h655b, \h59c3), U32(\h8f0c, \hcc92), U32(\hffef, \hf47d), U32(\h8584, \h5dd1),
    U32(\h6fa8, \h7e4f), U32(\hfe2c, \he6e0), U32(\ha301, \h4314), U32(\h4e08, \h11a1),
    U32(\hf753, \h7e82), U32(\hbd3a, \hf235), U32(\h2ad7, \hd2bb), U32(\heb86, \hd391)
  >>

INITIAL_WORD_A == U32(\h6745, \h2301)

INITIAL_WORD_B == U32(\hefcd, \hab89)

INITIAL_WORD_C == U32(\h98ba, \hdcfe)

INITIAL_WORD_D == U32(\h1032, \h5476)

aux_fun_f(x, y, z) == Or32[And32[x, y], And32[Not32[x], z]]

aux_fun_g(x, y, z) == Or32[And32[x, z], And32[y, Not32[z]]]

aux_fun_h(x, y, z) == Xor32[Xor32[x, y], z]

aux_fun_i(x, y, z) == Xor32[y, Or32[x, Not32[z]]]

HashComputeState(a, b, c, d) == [a |-> a, b |-> b, c |-> c, d |-> d]

\* A faulty default: the words read as the RFC prints their bytes, low-order
\* byte first.
HashComputeStateDefault_bytewise ==
  HashComputeState(U32(\h0123, \h4567), U32(\h89ab, \hcdef),
                   U32(\hfedc, \hba98), U32(\h7654, \h3210))

\* impl Default for HashComputeState
HashComputeStateDefault ==
  HashComputeState(INITIAL_WORD_A, INITIAL_WORD_B, INITIAL_WORD_C, INITIAL_WORD_D)

\* The function a step names, applied.
AuxFun(aux_fun, x, y, z) ==
  CASE aux_fun = "aux_fun_f" -> aux_fun_f(x, y, z)
    [] aux_fun = "aux_fun_g" -> aux_fun_g(x, y, z)
    [] aux_fun = "aux_fun_h" -> aux_fun_h(x, y, z)
    [] aux_fun = "aux_fun_i" -> aux_fun_i(x, y, z)

\* A faulty macro: the word named td takes the old value of the word named
\* ta, as if the words changed roles at every step.
Md5Op_shifting(self, block, aux_fun, ta, tb, tc, td, k, s, i) ==
  (ta :> wrapping_add[
           rotate_left[
             wrapping_add[
               wrapping_add[
                 wrapping_add[self[ta],
                              AuxFun(aux_fun, self[tb], self[tc], self[td])],
                 block[k + 1]],
               SINE_TABLE[i + 1]],
             s],
           self[tb]])
  @@ (tb :> self[tb]) @@ (tc :> self[tc]) @@ (td :> self[ta])

\* A faulty macro: the word of the block is taken at the index of the step,
\* modulo the sixteen words, in every round.
Md5Op_indexing_by_step(self, block, aux_fun, ta, tb, tc, td, k, s, i) ==
  (ta :> wrapping_add[
           rotate_left[
             wrapping_add[
               wrapping_add[
                 wrapping_add[self[ta],
                              AuxFun(aux_fun, self[tb], self[tc], self[td])],
                 block[(i % BLOCK_SIZE_WORDS) + 1]],
               SINE_TABLE[i + 1]],
             s],
           self[tb]])
  @@ (tb :> self[tb]) @@ (tc :> self[tc]) @@ (td :> self[td])

\* The macro Md5Op: the word named ta is recomputed, the words named tb, tc
\* and td are copied.  Indices k and i are the source's, counted from 0.
Md5Op(self, block, aux_fun, ta, tb, tc, td, k, s, i) ==
  (ta :> wrapping_add[
           rotate_left[
             wrapping_add[
               wrapping_add[
                 wrapping_add[self[ta],
                              AuxFun(aux_fun, self[tb], self[tc], self[td])],
                 block[k + 1]],
               SINE_TABLE[i + 1]],
             s],
           self[tb]])
  @@ (tb :> self[tb]) @@ (tc :> self[tc]) @@ (td :> self[td])

advance_step(self, block, step) ==
  CASE step = 1 -> Md5Op(self, block, "aux_fun_f", "a", "b", "c", "d", 0, 7, 0)
    [] step = 2 -> Md5Op(self, block, "aux_fun_f", "d", "a", "b", "c", 1, 12, 1)
    [] step = 3 -> Md5Op(self, block, "aux_fun_f", "c", "d", "a", "b", 2, 17, 2)
    [] step = 4 -> Md5Op(self, block, "aux_fun_f", "b", "c", "d", "a", 3, 22, 3)
    [] step = 5 -> Md5Op(self, block, "aux_fun_f", "a", "b", "c", "d", 4, 7, 4)
    [] step = 6 -> Md5Op(self, block, "aux_fun_f", "d", "a", "b", "c", 5, 12, 5)
    [] step = 7 -> Md5Op(self, block, "aux_fun_f", "c", "d", "a", "b", 6, 17, 6)
    [] step = 8 -> Md5Op(self, block, "aux_fun_f", "b", "c", "d", "a", 7, 22, 7)
    [] step = 9 -> Md5Op(self, block, "aux_fun_f", "a", "b", "c", "d", 8, 7, 8)
    [] step = 10 -> Md5Op(self, block, "aux_fun_f", "d", "a", "b", "c", 9, 12, 9)
    [] step = 11 -> Md5Op(self, block, "aux_fun_f", "c", "d", "a", "b", 10, 17, 10)
    [] step = 12 -> Md5Op(self, block, "aux_fun_f", "b", "c", "d", "a", 11, 22, 11)
    [] step = 13 -> Md5Op(self, block, "aux_fun_f", "a", "b", "c", "d", 12, 7, 12)
    [] step = 14 -> Md5Op(self, block, "aux_fun_f", "d", "a", "b", "c", 13, 12, 13)
    [] step = 15 -> Md5Op(self, block, "aux_fun_f", "c", "d", "a", "b", 14, 17, 14)
    [] step = 16 -> Md5Op(self, block, "aux_fun_f", "b", "c", "d", "a", 15, 22, 15)
    [] step = 17 -> Md5Op(self, block, "aux_fun_g", "a", "b", "c", "d", 1, 5, 16)
    [] step = 18 -> Md5Op(self, block, "aux_fun_g", "d", "a", "b", "c", 6, 9, 17)
    [] step = 19 -> Md5Op(self, block, "aux_fun_g", "c", "d", "a", "b", 11, 14, 18)
    [] step = 20 -> Md5Op(self, block, "aux_fun_g", "b", "c", "d", "a", 0, 20, 19)
    [] step = 21 -> Md5Op(self, block, "aux_fun_g", "a", "b", "c", "d", 5, 5, 20)
    [] step = 22 -> Md5Op(self, block, "aux_fun_g", "d", "a", "b", "c", 10, 9, 21)
    [] step = 23 -> Md5Op(self, block, "aux_fun_g", "c", "d", "a", "b", 15, 14, 22)
    [] step = 24 -> Md5Op(self, block, "aux_fun_g", "b", "c", "d", "a", 4, 20, 23)
    [] step = 25 -> Md5Op(self, block, "aux_fun_g", "a", "b", "c", "d", 9, 5, 24)
    [] step = 26 -> Md5Op(self, block, "aux_fun_g", "d", "a", "b", "c", 14, 9, 25)
    [] step = 27 -> Md5Op(self, block, "aux_fun_g", "c", "d", "a", "b", 3, 14, 26)
    [] step = 28 -> Md5Op(self, block, "aux_fun_g", "b", "c", "d", "a", 8, 20, 27)
    [] step = 29 -> Md5Op(self, block, "aux_fun_g", "a", "b", "c", "d", 13, 5, 28)
    [] step = 30 -> Md5Op(self, block, "aux_fun_g", "d", "a", "b", "c", 2, 9, 29)
    [] step = 31 -> Md5Op(self, block, "aux_fun_g", "c", "d", "a", "b", 7, 14, 30)
    [] step = 32 -> Md5Op(self, block, "aux_fun_g", "b", "c", "d", "a", 12, 20, 31)
    [] step = 33 -> Md5Op(self, block, "aux_fun_h", "a", "b", "c", "d", 5, 4, 32)
    [] step = 34 -> Md5Op(self, block, "aux_fun_h", "d", "a", "b", "c", 8, 11, 33)
    [] step = 35 -> Md5Op(self, block, "aux_fun_h", "c", "d", "a", "b", 11, 16, 34)
    [] step = 36 -> Md5Op(self, block, "aux_fun_h", "b", "c", "d", "a", 14, 23, 35)
    [] step = 37 -> Md5Op(self, block, "aux_fun_h", "a", "b", "c", "d", 1, 4, 36)
    [] step = 38 -> Md5Op(self, block, "aux_fun_h", "d", "a", "b", "c", 4, 11, 37)
    [] step = 39 -> Md5Op(self, block, "aux_fun_h", "c", "d", "a", "b", 7, 16, 38)
    [] step = 40 -> Md5Op(self, block, "aux_fun_h", "b", "c", "d", "a", 10, 23, 39)
    [] step = 41 -> Md5Op(self, block, "aux_fun_h", "a", "b", "c", "d", 13, 4, 40)
    [] step = 42 -> Md5Op(self, block, "aux_fun_h", "d", "a", "b", "c", 0, 11, 41)
    [] step = 43 -> Md5Op(self, block, "aux_fun_h", "c", "d", "a", "b", 3, 16, 42)
    [] step = 44 -> Md5Op(self, block, "aux_fun_h", "b", "c", "d", "a", 6, 23, 43)
    [] step = 45 -> Md5Op(self, block, "aux_fun_h", "a", "b", "c", "d", 9, 4, 44)
    [] step = 46 -> Md5Op(self, block, "aux_fun_h", "d", "a", "b", "c", 12, 11, 45)
    [] step = 47 -> Md5Op(self, block, "aux_fun_h", "c", "d", "a", "b", 15, 16, 46)
    [] step = 48 -> Md5Op(self, block, "aux_fun_h", "b", "c", "d", "a", 2, 23, 47)
    [] step = 49 -> Md5Op(self, block, "aux_fun_i", "a", "b", "c", "d", 0, 6, 48)
    [] step = 50 -> Md5Op(self, block, "aux_fun_i", "d", "a", "b", "c", 7, 10, 49)
    [] step = 51 -> Md5Op(self, block, "aux_fun_i", "c", "d", "a", "b", 14, 15, 50)
    [] step = 52 -> Md5Op(self, block, "aux_fun_i", "b", "c", "d", "a", 5, 21, 51)
    [] step = 53 -> Md5Op(self, block, "aux_fun_i", "a", "b", "c", "d", 12, 6, 52)
    [] step = 54 -> Md5Op(self, block, "aux_fun_i", "d", "a", "b", "c", 3, 10, 53)
    [] step = 55 -> Md5Op(self, block, "aux_fun_i", "c", "d", "a", "b", 10, 15, 54)
    [] step = 56 -> Md5Op(self, block, "aux_fun_i", "b", "c", "d", "a", 1, 21, 55)
    [] step = 57 -> Md5Op(self, block, "aux_fun_i", "a", "b", "c", "d", 8, 6, 56)
    [] step = 58 -> Md5Op(self, block, "aux_fun_i", "d", "a", "b", "c", 15, 10, 57)
    [] step = 59 -> Md5Op(self, block, "aux_fun_i", "c", "d", "a", "b", 6, 15, 58)
    [] step = 60 -> Md5Op(self, block, "aux_fun_i", "b", "c", "d", "a", 13, 21, 59)
    [] step = 61 -> Md5Op(self, block, "aux_fun_i", "a", "b", "c", "d", 4, 6, 60)
    [] step = 62 -> Md5Op(self, block, "aux_fun_i", "d", "a", "b", "c", 11, 10, 61)
    [] step = 63 -> Md5Op(self, block, "aux_fun_i", "c", "d", "a", "b", 2, 15, 62)
    [] step = 64 -> Md5Op(self, block, "aux_fun_i", "b", "c", "d", "a", 9, 21, 63)

RECURSIVE RunSteps(_, _, _, _)
\* for step in from..=to { result = result.advance_step(&block, step) }: the
\* steps from..mid are run to their state, then the steps mid+1..to from it.
RunSteps(result, block, from, to) ==
  IF from > to THEN result
  ELSE IF from = to THEN advance_step(result, block, from)
  ELSE CHOOSE last \in
         {RunSteps(first, block, ((from + to) \div 2) + 1, to) :
            first \in {RunSteps(result, block, from, (from + to) \div 2)}} :
           TRUE

\* The message schedule: sixteen little-endian words of the chunk.
ChunkWords(chunk) ==
  [index \in 1..BLOCK_SIZE_WORDS |->
     u8_to_u32(SubSeq(chunk, (index - 1) * 4 + 1, (index - 1) * 4 + 4))] \o <<>>

\* A faulty process_chunk: the state after step 64 is returned as it is, the
\* words before the loop are not added to it.
process_chunk_unfed(self, chunk) ==
  CHOOSE result \in
    {RunSteps(self, block, 1, 64) : block \in {ChunkWords(chunk)}} : TRUE

process_chunk(self, chunk) ==
  CHOOSE next \in
    {HashComputeState(wrapping_add[self.a, result.a],
                      wrapping_add[self.b, result.b],
                      wrapping_add[self.c, result.c],
                      wrapping_add[self.d, result.d]) :
       result \in {RunSteps(self, block, 1, 64) :
                     block \in {ChunkWords(chunk)}}} : TRUE

to_raw(self) ==
  u32_to_u8(self.a) \o u32_to_u8(self.b) \o u32_to_u8(self.c) \o u32_to_u8(self.d)

(***************************************************************************)
(* hash.rs                                                                 *)
(***************************************************************************)
HexDigits ==
  <<"0", "1", "2", "3", "4", "5", "6", "7", "8", "9", "a", "b", "c", "d", "e", "f">>

\* A faulty format, "{:x}": no leading zero.
FormatByte_unpadded(value) ==
  IF value < 16 THEN HexDigits[value + 1]
  ELSE HexDigits[(value \div 16) + 1] \o HexDigits[(value % 16) + 1]

\* write!(formatter, "{:02x}", value)
FormatByte(value) == HexDigits[(value \div 16) + 1] \o HexDigits[(value % 16) + 1]

RECURSIVE FormatBytes(_, _, _)
\* The bytes from..to of value, each written as "{:02x}", in order.
FormatBytes(value, from, to) ==
  IF from > to THEN ""
  ELSE IF from = to THEN FormatByte(value[from])
  ELSE LET mid == (from + to) \div 2
       IN  FormatBytes(value, from, mid) \o FormatBytes(value, mid + 1, to)

\* impl Display for Hash: for value in self.value.iter() { write!(...) }
HashDisplay(value) == FormatBytes(value, 1, Len(value))

(***************************************************************************)
(* chunk.rs                                                                *)
(***************************************************************************)
\* A faulty conversion: a longer slice is cut to its first CHUNK_SIZE_BYTES
\* bytes.
ChunkTryFrom_truncating(value) ==
  IF Len(value) < CHUNK_SIZE_BYTES
  THEN [ok |-> FALSE, InvalidSize |-> Len(value)]
  ELSE [ok |-> TRUE, chunk |-> SubSeq(value, 1, CHUNK_SIZE_BYTES)]

\* impl TryFrom<&[u8]> for Chunk
ChunkTryFrom(value) ==
  IF Len(value) # CHUNK_SIZE_BYTES
  THEN [ok |-> FALSE, InvalidSize |-> Len(value)]
  ELSE [ok |-> TRUE, chunk |-> value]

\* vec![0_u8; n]
Zeros(n) == [i \in 1..n |-> 0] \o <<>>

(***************************************************************************)
(* 64-bit counters                                                         *)
(***************************************************************************)
\* n as u64, for a usize below 2^31.
AsU64(n) == U64(0, 0, n \div Two16, n % Two16)

U64_MAX == U64(Two16 - 1, Two16 - 1, Two16 - 1, Two16 - 1)

\* u64 & u64
And64(x, y) == [i \in 1..4 |-> Half(AndTable, x[i], y[i])] \o <<>>

\* u64 + u64: the sum modulo 2^64 and whether it left the 64 bits.  A build
\* with overflow checks panics when it did, a build without keeps the sum.
Add64(x, y) ==
  LET s0 == x[4] + y[4]
      s1 == x[3] + y[3] + (s0 \div Two16)
      s2 == x[2] + y[2] + (s1 \div Two16)
      s3 == x[1] + y[1] + (s2 \div Two16)
  IN  [value |-> U64(s3 % Two16, s2 % Two16, s1 % Two16, s0 % Two16),
       overflow |-> s3 >= Two16]

(***************************************************************************)
(* chunk_processor.rs                                                      *)
(***************************************************************************)
INITIAL_BIT_SIZE_BYTES == 1

INITIAL_BIT == 128

LENGTH_SIZE_BYTES == 8

ZERO_PADDING_MAX_SIZE_BYTES ==
  CHUNK_SIZE_BYTES - LENGTH_SIZE_BYTES - INITIAL_BIT_SIZE_BYTES

CHUNK_LENGTH == AsU64(CHUNK_SIZE_BYTES * 8)

\* impl Default for ChunkProcessor
ChunkProcessorDefault ==
  [buffer |-> <<>>, state |-> HashComputeStateDefault, size |-> AsU64(0)]

\* A faulty write_length: the length written one byte early, at bytes 55..62.
write_length_early(chunk, size) ==
  LET length == u64_to_u8(And64(size, U64_MAX))
  IN  [p \in 1..Len(chunk) |->
         IF \E x \in 0..7 : p = ZERO_PADDING_MAX_SIZE_BYTES + x + 1
         THEN length[p - ZERO_PADDING_MAX_SIZE_BYTES]
         ELSE chunk[p]] \o <<>>

write_length(chunk, size) ==
  LET length == u64_to_u8(And64(size, U64_MAX))
  IN  [p \in 1..Len(chunk) |->
         IF \E x \in 0..7 : p = ZERO_PADDING_MAX_SIZE_BYTES + x + 1 + 1
         THEN length[p - ZERO_PADDING_MAX_SIZE_BYTES - 1]
         ELSE chunk[p]] \o <<>>

\* One call of update or finalize in progress: the processor's fields, and
\* what the call has done so far: the chunks it folded (folds), the lengths
\* of the slices it handed to Chunk::try_from (slices) and the panic that
\* ended it, if any.  An addition to the bit counter that leaves the 64 bits
\* panics in a build with overflow checks and keeps the sum modulo 2^64 in a
\* build without: the call goes on as the build without checks does, and
\* overflow holds the call as the panic of the first such addition ends it
\* in a build with checks (<<>> when no addition left the 64 bits).
Call(self) ==
  [buffer |-> self.buffer, state |-> self.state, size |-> self.size,
   folds |-> <<>>, slices |-> <<>>, overflow |-> <<>>, panic |-> "none"]

\* What a call leaves, in each build.
Outcomes(call) == {call} \cup {call.overflow[i] : i \in 1..Len(call.overflow)}

\* let chunk = &Chunk::try_from(slice).unwrap();
\* self.state = self.state.process_chunk(chunk);
FoldSlice(call, slice) ==
  IF call.panic # "none" THEN call
  ELSE LET r == ChunkTryFrom(slice)
       IN  IF r.ok
           THEN [call EXCEPT !.state = process_chunk(call.state, r.chunk),
                             !.folds = Append(@, r.chunk),
                             !.slices = Append(@, Len(slice))]
           ELSE [call EXCEPT !.panic = "unwrap",
                             !.slices = Append(@, Len(slice))]

\* A faulty count: the bytes of the chunk are added, not its bits.
AddChunkLength_bytes(call) ==
  IF call.panic # "none" THEN call
  ELSE [call EXCEPT
          !.size = Add64(call.size, AsU64(CHUNK_SIZE_BYTES)).value]

\* self.size += CHUNK_LENGTH;
AddChunkLength(call) ==
  IF call.panic # "none" THEN call
  ELSE LET sum == Add64(call.size, CHUNK_LENGTH)
       IN  IF sum.overflow /\ call.overflow = <<>>
           THEN [call EXCEPT !.size = sum.value,
                             !.overflow = <<[call EXCEPT !.panic = "add"]>>]
           ELSE [call EXCEPT !.size = sum.value]

\* The three statements that update runs for each chunk: try_from and unwrap,
\* process_chunk, and the addition to size.
FoldCounted(call, slice) ==
  CHOOSE counted \in
    {AddChunkLength(folded) : folded \in {FoldSlice(call, slice)}} : TRUE

\* A faulty extend_from_slice: the bits of the bytes buffered are counted as
\* they are buffered.
ExtendBuffer_counting(call, bytes) ==
  [call EXCEPT !.buffer = @ \o bytes,
               !.size = Add64(@, AsU64(8 * Len(bytes))).value]

\* A faulty extend_from_slice: the bytes replace those of the buffer.
ExtendBuffer_replacing(call, bytes) == [call EXCEPT !.buffer = bytes]

\* self.buffer.extend_from_slice(bytes)
ExtendBuffer(call, bytes) == [call EXCEPT !.buffer = @ \o bytes]

\* A faulty test: data is buffered only when it has bytes, and an empty data
\* is taken to complete the buffer.
FitsBuffer_needing_data(self, data) ==
  data # <<>> /\ Len(data) + Len(self.buffer) < CHUNK_SIZE_BYTES

\* A faulty test: a buffer that data fills exactly is kept, not folded.
FitsBuffer_inclusive(self, data) ==
  Len(data) + Len(self.buffer) <= CHUNK_SIZE_BYTES

\* update's test: the buffered bytes and data together are short of a chunk.
FitsBuffer(self, data) == Len(data) + Len(self.buffer) < CHUNK_SIZE_BYTES

\* A faulty position: a whole chunk is split off data, whatever is buffered.
SplitPoint_whole(call) == CHUNK_SIZE_BYTES

\* The position update gives to split_at.  The subtraction is of usize: below
\* zero it panics, or wraps to a position beyond any slice.
SplitPoint(call) == CHUNK_SIZE_BYTES - Len(call.buffer)

\* Lines 50-60 of update: the buffered bytes are completed to a chunk from the
\* head of data, and the chunk is folded.  The result holds the call and the
\* rest of data.
FillBuffer(call, data) ==
  LET mid == SplitPoint(call)
  IN  IF mid < 0 \/ mid > Len(data)
      THEN [call |-> [call EXCEPT !.panic = "split_at"], data |-> <<>>]
      ELSE LET for_chunk == SubSeq(data, 1, mid)
               extra == SubSeq(data, mid + 1, Len(data))
               filled == ExtendBuffer(call, for_chunk)
               drained == [filled EXCEPT !.buffer = <<>>]
           IN  [call |-> FoldCounted(drained, filled.buffer), data |-> extra]

\* A faulty chunks_exact: a chunk that ends with data is left out.
HasChunk_exclusive(data, index) == (index + 1) * CHUNK_SIZE_BYTES < Len(data)

\* chunks_exact: data holds a whole chunk at index.
HasChunk(data, index) == (index + 1) * CHUNK_SIZE_BYTES <= Len(data)

RECURSIVE FoldChunks_reversed(_, _, _)
\* A faulty iteration: the whole chunks of data folded from the last to the
\* first.
FoldChunks_reversed(call, data, index) ==
  IF ~HasChunk(data, index) THEN call
  ELSE CHOOSE result \in
         {FoldCounted(later, SubSeq(data, index * CHUNK_SIZE_BYTES + 1,
                                          (index + 1) * CHUNK_SIZE_BYTES)) :
            later \in {FoldChunks_reversed(call, data, index + 1)}} : TRUE

RECURSIVE FoldChunks(_, _, _)
\* chunks_iter.for_each(...): the whole chunks of data, in order.
FoldChunks(call, data, index) ==
  IF ~HasChunk(data, index) THEN call
  ELSE CHOOSE result \in
         {FoldChunks(next, data, index + 1) :
            next \in {FoldCounted(call,
                        SubSeq(data, index * CHUNK_SIZE_BYTES + 1,
                                     (index + 1) * CHUNK_SIZE_BYTES))}} : TRUE

\* Lines 62-68 of update: the remainder of data is buffered and the whole
\* chunks of data are folded.
ExactChunks(call, data) ==
  LET remainder ==
        SubSeq(data, Len(data) - (Len(data) % CHUNK_SIZE_BYTES) + 1, Len(data))
  IN  FoldChunks(ExtendBuffer(call, remainder), data, 0)

\* ChunkProcessor::update
update(self, data) ==
  IF self.buffer # <<>>
  THEN IF FitsBuffer(self, data)
       THEN ExtendBuffer(Call(self), data)
       ELSE CHOOSE result \in
              {IF filled.call.panic # "none" THEN filled.call
               ELSE ExactChunks(filled.call, filled.data) :
                 filled \in {FillBuffer(Call(self), data)}} : TRUE
  ELSE ExactChunks(Call(self), data)

\* A faulty test: a buffer of 55 bytes is taken not to hold the padding.
CannotHoldPadding_inclusive(buffer_length) ==
  buffer_length >= ZERO_PADDING_MAX_SIZE_BYTES

\* finalize's test: the buffer cannot hold the marker and the length.
CannotHoldPadding(buffer_length) == buffer_length > ZERO_PADDING_MAX_SIZE_BYTES

\* A faulty padding: a zero byte is pushed where the marker belongs, and the
\* marker is left to the last chunk.
PadBuffer_unmarked(call, buffer_length, fill) ==
  LET padded == [call EXCEPT !.buffer = (@ \o <<0>>) \o Zeros(fill)]
  IN  IF CannotHoldPadding(buffer_length)
      THEN CHOOSE cleared \in
             {IF folded.panic # "none" THEN folded
              ELSE [folded EXCEPT !.buffer = Zeros(CHUNK_SIZE_BYTES)] :
                folded \in {FoldSlice(padded, padded.buffer)}} : TRUE
      ELSE padded

\* Lines 74-88 of finalize: the marker and the zero fill are appended to the
\* buffer; a buffer that cannot hold the length is folded and replaced by
\* CHUNK_SIZE_BYTES zeros.
PadBuffer(call, buffer_length, fill) ==
  LET padded == [call EXCEPT !.buffer = (@ \o <<INITIAL_BIT>>) \o Zeros(fill)]
  IN  IF CannotHoldPadding(buffer_length)
      THEN CHOOSE cleared \in
             {IF folded.panic # "none" THEN folded
              ELSE [folded EXCEPT !.buffer = Zeros(CHUNK_SIZE_BYTES)] :
                folded \in {FoldSlice(padded, padded.buffer)}} : TRUE
      ELSE padded

\* A faulty order: the marker is written after the length, not before it.
LastChunk_marking_last(call, buffer_length, size) ==
  LET r == ChunkTryFrom(call.buffer)
  IN  IF call.panic # "none" THEN call
      ELSE IF ~r.ok
      THEN [call EXCEPT !.panic = "unwrap",
                        !.slices = Append(@, Len(call.buffer))]
      ELSE LET chunk == [write_length(r.chunk, size)
                           EXCEPT ![buffer_length + 1] = INITIAL_BIT]
           IN  [call EXCEPT !.state = process_chunk(call.state, chunk),
                            !.folds = Append(@, chunk),
                            !.slices = Append(@, Len(call.buffer))]

\* Lines 94-97 of finalize: the last chunk is made of the buffer, the marker
\* and the length, and folded.
LastChunk(call, buffer_length, size) ==
  LET r == ChunkTryFrom(call.buffer)
  IN  IF call.panic # "none" THEN call
      ELSE IF ~r.ok
      THEN [call EXCEPT !.panic = "unwrap",
                        !.slices = Append(@, Len(call.buffer))]
      ELSE LET marked == [r.chunk EXCEPT ![buffer_length + 1] = INITIAL_BIT]
               chunk == write_length(marked, size)
           IN  [call EXCEPT !.state = process_chunk(call.state, chunk),
                            !.folds = Append(@, chunk),
                            !.slices = Append(@, Len(call.buffer))]

\* Lines 73-97 of finalize, buffer_length being self.buffer.len().  The result
\* also holds buffer_length, the number of zero bytes asked of vec! (fill) and
\* the bytes handed to Hash::from.  The subtraction that gives fill is of
\* usize: below zero it panics, or wraps to a length no vec! can have.
PadAndFold(self, buffer_length) ==
  LET sum == Add64(self.size, AsU64(buffer_length * 8))
      fill == CHUNK_SIZE_BYTES - buffer_length - 1
      extra == [buffer_length |-> buffer_length, fill |-> fill, raw |-> <<>>]
      start ==
        IF sum.overflow
        THEN [Call(self) EXCEPT
                !.overflow = <<[Call(self) EXCEPT !.panic = "add"] @@ extra>>]
        ELSE Call(self)
  IN  IF fill < 0 THEN [start EXCEPT !.panic = "subtract"] @@ extra
      ELSE CHOOSE result \in
             {last @@ [extra EXCEPT !.raw = IF last.panic = "none"
                                           THEN to_raw(last.state) ELSE <<>>] :
                last \in {LastChunk(first, buffer_length, sum.value) :
                            first \in {PadBuffer(start, buffer_length, fill)}}} :
               TRUE

\* A faulty finalize: with nothing buffered, no padding is folded.
finalize_skipping_empty(self) ==
  IF self.buffer = <<>>
  THEN Call(self) @@ [buffer_length |-> 0, fill |-> 0, raw |-> to_raw(self.state)]
  ELSE PadAndFold(self, Len(self.buffer))

\* ChunkProcessor::finalize
finalize(self) == PadAndFold(self, Len(self.buffer))

(***************************************************************************)
(* lib.rs: ChunkProvider and Md5Hasher                                     *)
(***************************************************************************)
\* lib.rs holds its own copies of the constants, the auxiliary functions, the
\* macro Md5Op, advance_step and process_chunk; they compute what those of
\* hash_compute_state.rs compute, and the definitions above stand for both.

\* Chunk::empty()
ChunkEmpty == Zeros(CHUNK_SIZE_BYTES)

\* ChunkProvider::new, without the input it borrows.
ChunkProviderNew == [padding_state |-> "InitialBit", size |-> AsU64(0)]

\* <Cursor<Vec<u8>> as Read>::read into a buffer of CHUNK_SIZE_BYTES bytes: the
\* bytes it copies, from position pos of data.
CursorRead(data, pos) ==
  LET amt == IF Len(data) - pos < CHUNK_SIZE_BYTES
             THEN Len(data) - pos
             ELSE CHUNK_SIZE_BYTES
  IN  SubSeq(data, pos + 1, pos + amt)

\* A faulty write_length: the bytes of the length are written last first.
provider_write_length_reversed(provider, chunk) ==
  LET length == u64_to_u8(And64(provider.size, U64_MAX))
  IN  [p \in 1..Len(chunk) |->
         IF \E x \in 0..7 : p = ZERO_PADDING_MAX_SIZE_BYTES + x + 1 + 1
         THEN length[LENGTH_SIZE_BYTES + 1 - (p - ZERO_PADDING_MAX_SIZE_BYTES - 1)]
         ELSE chunk[p]] \o <<>>

\* ChunkProvider::write_length
provider_write_length(provider, chunk) ==
  LET length == u64_to_u8(And64(provider.size, U64_MAX))
  IN  [p \in 1..Len(chunk) |->
         IF \E x \in 0..7 : p = ZERO_PADDING_MAX_SIZE_BYTES + x + 1 + 1
         THEN length[p - ZERO_PADDING_MAX_SIZE_BYTES - 1]
         ELSE chunk[p]] \o <<>>

\* A faulty read: the block that holds the length alone leaves the padding
\* state at InitialBit, and one more block of padding follows it.
provider_read_restarting(provider, buffer, bytes) ==
  LET bytes_read == Len(bytes)
      copied == bytes \o SubSeq(buffer, bytes_read + 1, Len(buffer))
      sum == Add64(provider.size, AsU64(bytes_read * 8))
      counted == [provider EXCEPT !.size = sum.value]
      done == [counted EXCEPT !.padding_state = "Done"]
      read == [copied |-> copied, wrapped |-> sum.overflow]
  IN  IF bytes_read = 0 /\ provider.padding_state = "Done"
      THEN [provider |-> provider, buffer |-> copied, some |-> FALSE,
            copied |-> copied, wrapped |-> FALSE]
      ELSE IF bytes_read = 0
      THEN CASE provider.padding_state = "InitialBit" ->
                  read @@ [provider |-> done,
                           buffer |-> provider_write_length(counted,
                                        [ChunkEmpty EXCEPT ![1] = INITIAL_BIT]),
                           some |-> TRUE]
             [] provider.padding_state = "Length" ->
                  read @@ [provider |->
                             [counted EXCEPT !.padding_state = "InitialBit"],
                           buffer |-> provider_write_length(counted, ChunkEmpty),
                           some |-> TRUE]
             [] provider.padding_state = "Done" ->
                  read @@ [provider |-> counted, buffer |-> ChunkEmpty,
                           some |-> FALSE]
      ELSE IF bytes_read < Len(buffer)
      THEN LET marked == (bytes \o <<INITIAL_BIT>>)
                           \o Zeros(Len(buffer) - bytes_read - 1)
           IN  IF bytes_read <= ZERO_PADDING_MAX_SIZE_BYTES
               THEN read @@ [provider |-> done,
                             buffer |-> provider_write_length(counted, marked),
                             some |-> TRUE]
               ELSE read @@ [provider |->
                               [counted EXCEPT !.padding_state = "Length"],
                             buffer |-> marked, some |-> TRUE]
      ELSE read @@ [provider |-> counted, buffer |-> copied, some |-> TRUE]

\* ChunkProvider::read, given the bytes the input's read copied to the head of
\* buffer (none at the end of the input).  some tells Some(()) from None;
\* copied is the buffer as the input's read left it; wrapped, whether the
\* addition to size left the 64 bits: a build with overflow checks panics
\* there, a build without goes on with the sum modulo 2^64.
provider_read(provider, buffer, bytes) ==
  LET bytes_read == Len(bytes)
      copied == bytes \o SubSeq(buffer, bytes_read + 1, Len(buffer))
      sum == Add64(provider.size, AsU64(bytes_read * 8))
      counted == [provider EXCEPT !.size = sum.value]
      done == [counted EXCEPT !.padding_state = "Done"]
      read == [copied |-> copied, wrapped |-> sum.overflow]
  IN  IF bytes_read = 0 /\ provider.padding_state = "Done"
      THEN [provider |-> provider, buffer |-> copied, some |-> FALSE,
            copied |-> copied, wrapped |-> FALSE]
      ELSE IF bytes_read = 0
      THEN CASE provider.padding_state = "InitialBit" ->
                  read @@ [provider |-> done,
                           buffer |-> provider_write_length(counted,
                                        [ChunkEmpty EXCEPT ![1] = INITIAL_BIT]),
                           some |-> TRUE]
             [] provider.padding_state = "Length" ->
                  read @@ [provider |-> done,
                           buffer |-> provider_write_length(counted, ChunkEmpty),
                           some |-> TRUE]
             [] provider.padding_state = "Done" ->
                  read @@ [provider |-> counted, buffer |-> ChunkEmpty,
                           some |-> FALSE]
      ELSE IF bytes_read < Len(buffer)
      THEN LET marked == (bytes \o <<INITIAL_BIT>>)
                           \o Zeros(Len(buffer) - bytes_read - 1)
           IN  IF bytes_read <= ZERO_PADDING_MAX_SIZE_BYTES
               THEN read @@ [provider |-> done,
                             buffer |-> provider_write_length(counted, marked),
                             some |-> TRUE]
               ELSE read @@ [provider |->
                               [counted EXCEPT !.padding_state = "Length"],
                             buffer |-> marked, some |-> TRUE]
      ELSE read @@ [provider |-> counted, buffer |-> copied, some |-> TRUE]

\* Md5Hasher::new
Md5HasherNew == [state |-> HashComputeStateDefault]

\* Md5Hasher::add_raw_chunk
add_raw_chunk(hasher, chunk) ==
  [hasher EXCEPT !.state = process_chunk(hasher.state, chunk)]

\* Md5Hasher::add_chunk
add_chunk(hasher, chunk) == add_raw_chunk(hasher, chunk)

\* Md5Hasher::state_var_to_u8: (0xff << (index * 8) & state_var) >> (index * 8)
state_var_to_u8(state_var) ==
  <<state_var[2] % 256, state_var[2] \div 256,
    state_var[1] % 256, state_var[1] \div 256>>

\* Md5Hasher::compute
compute(hasher) ==
  state_var_to_u8(hasher.state.a) \o state_var_to_u8(hasher.state.b)
    \o state_var_to_u8(hasher.state.c) \o state_var_to_u8(hasher.state.d)

(***************************************************************************)
(* Inputs                                                                  *)
(***************************************************************************)
\* The longest input fed to one processor.
MaxInputLen == 130

\* The longest piece given to one update call.
MaxPiece == 129

\* "message digest"
MessageDigest ==
  <<109, 101, 115, 115, 97, 103, 101, 32, 100, 105, 103, 101, 115, 116>>

\* "abcdefghijklmnopqrstuvwxyz"
LowerAlphabet ==
  <<97, 98, 99, 100, 101, 102, 103, 104, 105, 106, 107, 108, 109, 110, 111, 112,
    113, 114, 115, 116, 117, 118, 119, 120, 121, 122>>

\* "ABCDEFGHIJKLMNOPQRSTUVWXYZabcdefghijklmnopqrstuvwxyz0123456789"
MixedAlphabet ==
  <<65, 66, 67, 68, 69, 70, 71, 72, 73, 74, 75, 76, 77, 78, 79, 80,
    81, 82, 83, 84, 85, 86, 87, 88, 89, 90, 97, 98, 99, 100, 101, 102,
    103, 104, 105, 106, 107, 108, 109, 110, 111, 112, 113, 114, 115, 116, 117, 118,
    119, 120, 121, 122, 48, 49, 50, 51, 52, 53, 54, 55, 56, 57>>

\* "1234567890" repeated, cut after n characters.
Digits(n) == [i \in 1..n |-> 48 + (i % 10)] \o <<>>

\* Bytes that are no text: zeros, the value of the marker, 0xff.
Binary == <<0, 128, 255, 0, 0, 128, 1, 127>>

\* The messages callers hash.  Every prefix of a message is an input too: a
\* caller may stop feeding a processor at any point.
Messages ==
  {MessageDigest, LowerAlphabet, MixedAlphabet, Binary, Digits(MaxInputLen)}

\* A bit count two chunks short of 2^64.
NearWrap == U64(Two16 - 1, Two16 - 1, Two16 - 1, Two16 - 2 * CHUNK_SIZE_BYTES * 8)


(***************************************************************************)
(* The state machine: a caller hashing one input, either by feeding a      *)
(* ChunkProcessor piece by piece or by one call of Md5Hasher::hash         *)
(***************************************************************************)
VARIABLES
  entry,          \* "ChunkProcessor" or "Md5Hasher": the interface in use
  msg,            \* the message the caller takes its bytes from
  prior,          \* the bits counted before the first step modelled, a u64
  input,          \* the bytes given so far: to update, concatenated, or to hash
  buffer,         \* ChunkProcessor.buffer
  state,          \* ChunkProcessor.state
  size,           \* ChunkProcessor.size
  phase,          \* "Accumulating", "Finalized", "Panicked" or "ReadError"
  folded,         \* the chunks given to process_chunk so far, in order
  slices,         \* the lengths of the slices handed to Chunk::try_from so far
  tail_len,       \* buffer_length as finalize read it; -1 before finalize
  zero_fill,      \* the length finalize asked of vec! for the zero fill
  final_folds,    \* the number of chunks finalize folded
  digest,         \* the 16 bytes returned by finalize or hash; <<>> before
  cursor,         \* Md5Hasher::hash: the position of its Cursor in the input
  chunk_provider, \* Md5Hasher::hash: its ChunkProvider
  chunk_buffer,   \* Md5Hasher::hash: its buffer
  hasher,         \* Md5Hasher::hash: its Md5Hasher
  engines,        \* two more processors, each with the calls made on it
  slice,          \* a slice given to Chunk::try_from
  converted,      \* <<>>, or the one result of Chunk::try_from(slice)
  block,          \* the sixteen words given to advance_step
  instance,       \* the HashComputeState that advance_step is called on
  steps           \* the number of steps taken on instance so far

processor_vars ==
  <<buffer, state, size, slices, tail_len, zero_fill, final_folds>>

hash_vars == <<cursor, chunk_provider, chunk_buffer, hasher>>

step_vars == <<block, instance, steps>>

other_vars == <<engines, slice, converted, step_vars>>

vars ==
  <<entry, msg, prior, input, phase, folded, digest, processor_vars, hash_vars,
    other_vars>>

self == [buffer |-> buffer, state |-> state, size |-> size]

Range(seq) == {seq[i] : i \in 1..Len(seq)}

Prefixes(m) == {SubSeq(m, 1, n) : n \in 0..Len(m)}

\* The fields of a new processor that has counted the bits of counted, the
\* locals of Md5Hasher::hash at its start, and no call made yet.
FreshLocals(counted) ==
  /\ prior = counted
  /\ buffer = ChunkProcessorDefault.buffer
  /\ state = ChunkProcessorDefault.state
  /\ size = counted
  /\ phase = "Accumulating"
  /\ folded = <<>>
  /\ slices = {}
  /\ tail_len = -1
  /\ zero_fill = 0
  /\ final_folds = 0
  /\ digest = <<>>
  /\ cursor = 0
  /\ chunk_provider = [ChunkProviderNew EXCEPT !.size = counted]
  /\ chunk_buffer = ChunkEmpty
  /\ hasher = Md5HasherNew

\* No step taken: the state of a caller that makes no call of advance_step of
\* its own.
NoSteps ==
  /\ block = <<>>
  /\ instance = HashComputeStateDefault
  /\ steps = 0

\* A processor, or a call of Md5Hasher::hash, that has counted the bits of
\* counted, and a caller about to hash one of messages.
InitAt(counted, messages) ==
  /\ entry \in {"ChunkProcessor", "Md5Hasher"}
  /\ msg \in messages
  /\ input \in IF entry = "Md5Hasher" THEN Prefixes(msg) ELSE {<<>>}
  /\ FreshLocals(counted)
  /\ engines = <<>>
  /\ slice = <<>>
  /\ converted = <<>>
  /\ NoSteps

\* ChunkProcessor::default(), or the start of Md5Hasher::hash(input).
Init == InitAt(ChunkProcessorDefault.size, Messages)

\* processor.update(data), data being the next n bytes of the message.
Update(n) ==
  /\ entry = "ChunkProcessor"
  /\ phase = "Accumulating"
  /\ Len(input) + n <= Len(msg)
  /\ \E data \in {SubSeq(msg, Len(input) + 1, Len(input) + n)} :
     \E call \in {update(self, data)} :
     \E outcome \in Outcomes(call) :
         /\ input' = input \o data
         /\ buffer' = outcome.buffer
         /\ state' = outcome.state
         /\ size' = outcome.size
         /\ folded' = folded \o outcome.folds
         /\ slices' = slices \cup Range(outcome.slices)
         /\ phase' = IF outcome.panic = "none" THEN "Accumulating"
                     ELSE "Panicked"
  /\ UNCHANGED <<entry, msg, prior, tail_len, zero_fill, final_folds, digest,
                 hash_vars, other_vars>>

\* processor.finalize()
Finalize ==
  /\ entry = "ChunkProcessor"
  /\ phase = "Accumulating"
  /\ \E call \in {finalize(self)} :
     \E outcome \in Outcomes(call) :
         /\ buffer' = outcome.buffer
         /\ state' = outcome.state
         /\ size' = outcome.size
         /\ folded' = folded \o outcome.folds
         /\ slices' = slices \cup Range(outcome.slices)
         /\ tail_len' = outcome.buffer_length
         /\ zero_fill' = outcome.fill
         /\ final_folds' = Len(outcome.folds)
         /\ digest' = outcome.raw
         /\ phase' = IF outcome.panic = "none" THEN "Finalized" ELSE "Panicked"
  /\ UNCHANGED <<entry, msg, prior, input, hash_vars, other_vars>>

\* Md5Hasher::hash, one turn of its loop, the input's read having copied
\* bytes: chunk_provider.read returns Some and the buffer is given to
\* add_raw_chunk; or the addition to the provider's size leaves the 64 bits
\* and the build has overflow checks, and read panics.
HashTurn(bytes) ==
  /\ entry = "Md5Hasher"
  /\ phase = "Accumulating"
  /\ \E r \in {provider_read(chunk_provider, chunk_buffer, bytes)} :
     \E panics \in IF r.wrapped THEN BOOLEAN ELSE {FALSE} :
         /\ r.some
         /\ cursor' = cursor + Len(bytes)
         /\ IF panics
            THEN /\ chunk_buffer' = r.copied
                 /\ phase' = "Panicked"
                 /\ UNCHANGED <<chunk_provider, hasher, folded>>
            ELSE /\ chunk_buffer' = r.buffer
                 /\ phase' = phase
                 /\ chunk_provider' = r.provider
                 /\ hasher' = add_raw_chunk(hasher, r.buffer)
                 /\ folded' = Append(folded, r.buffer)
  /\ UNCHANGED <<entry, msg, prior, input, digest, processor_vars, other_vars>>

\* Md5Hasher::hash, one turn of its loop on its Cursor.
HashRead == \E bytes \in {CursorRead(input, cursor)} : HashTurn(bytes)

\* Md5Hasher::hash, the end of its loop: chunk_provider.read returns None and
\* hash returns hasher.compute().
HashCompute ==
  /\ entry = "Md5Hasher"
  /\ phase = "Accumulating"
  /\ \E bytes \in {CursorRead(input, cursor)} :
     \E r \in {provider_read(chunk_provider, chunk_buffer, bytes)} :
         /\ ~r.some
         /\ ~r.wrapped
         /\ cursor' = cursor + Len(bytes)
         /\ chunk_provider' = r.provider
         /\ chunk_buffer' = r.buffer
         /\ digest' = compute(hasher)
         /\ phase' = "Finalized"
  /\ UNCHANGED <<entry, msg, prior, input, folded, hasher, processor_vars,
                 other_vars>>

Next ==
  \/ \E n \in 0..MaxPiece : Update(n)
  \/ Finalize
  \/ HashRead
  \/ HashCompute

Spec == Init /\ [][Next]_vars

\* Md5Hasher::hash alone: its loop goes on until it returns, a turn that can
\* be taken is taken.
InitLoop == Init /\ entry = "Md5Hasher"

NextLoop ==
  \/ HashRead
  \/ HashCompute

SpecLoop == InitLoop /\ [][NextLoop]_vars /\ WF_vars(NextLoop)

\* The same caller, met when the counter is two chunks short of 2^64.  The
\* compression state reached by then is not known; the counter's arithmetic
\* does not read it, and the initial words stand for it.
InitNearWrap == InitAt(NearWrap, {Digits(MaxInputLen)})

SpecNearWrap == InitNearWrap /\ [][Next]_vars

(***************************************************************************)
(* Chunk::try_from on its own: a caller converting one slice               *)
(***************************************************************************)
\* The slices of m that start at its first or second byte, the empty one
\* included.
SlicesOf(m) == {SubSeq(m, from, to) : from \in 1..2, to \in 0..Len(m)}

\* The slices converted: of every length from 0 to MaxInputLen.
Slices == UNION {SlicesOf(m) : m \in Messages}

InitTryFrom ==
  /\ entry = "Chunk"
  /\ msg = <<>>
  /\ input = <<>>
  /\ FreshLocals(ChunkProcessorDefault.size)
  /\ engines = <<>>
  /\ slice \in Slices
  /\ converted = <<>>
  /\ NoSteps

\* Chunk::try_from(slice)
TryFrom ==
  /\ entry = "Chunk"
  /\ converted = <<>>
  /\ converted' = <<ChunkTryFrom(slice)>>
  /\ UNCHANGED <<entry, msg, prior, input, phase, folded, digest,
                 processor_vars, hash_vars, engines, slice, step_vars>>

NextTryFrom == TryFrom

SpecTryFrom == InitTryFrom /\ [][NextTryFrom]_vars

(***************************************************************************)
(* ChunkProvider over any input: the loop of Md5Hasher::hash reading a     *)
(* std::io::Read that may return fewer bytes than asked, or fail           *)
(***************************************************************************)
\* The call of Md5Hasher::hash on an input that holds a prefix of Binary.
InitReads ==
  /\ InitAt(ChunkProcessorDefault.size, {Binary})
  /\ entry = "Md5Hasher"

\* One turn of the loop: self.input.read(&mut buffer.0) returns Ok(n), with n
\* from 1 to the CHUNK_SIZE_BYTES bytes of the buffer while the input has
\* bytes left, and 0 at its end.
HashReadAny ==
  \E n \in 0..CHUNK_SIZE_BYTES :
      /\ n <= Len(input) - cursor
      /\ n = 0 => cursor = Len(input)
      /\ HashTurn(SubSeq(input, cursor + 1, cursor + n))

\* A faulty loop, "while let Ok(Some(_)) = chunk_provider.read(..)": a failed
\* read ends the loop and the digest of the chunks folded so far is returned.
HashReadFails_returning_digest ==
  /\ entry = "Md5Hasher"
  /\ phase = "Accumulating"
  /\ digest' = compute(hasher)
  /\ phase' = "Finalized"
  /\ UNCHANGED <<entry, msg, prior, input, folded, processor_vars, hash_vars,
                 other_vars>>

\* One turn of the loop: self.input.read(&mut buffer.0) returns Err(error);
\* ChunkProvider::read returns Err(anyhow!(error)) and the ? of hash returns
\* it to the caller.
HashReadFails ==
  /\ entry = "Md5Hasher"
  /\ phase = "Accumulating"
  /\ phase' = "ReadError"
  /\ UNCHANGED <<entry, msg, prior, input, digest, folded, processor_vars,
                 hash_vars, other_vars>>

NextReads ==
  \/ HashReadAny
  \/ HashReadFails
  \/ HashCompute

SpecReads == InitReads /\ [][NextReads]_vars

(***************************************************************************)
(* Md5Hasher by its public methods: new, add_chunk and compute             *)
(***************************************************************************)
\* The most chunks given to one hasher.
MaxChunks == 3

\* The chunks of test_compute_single_chunk, the padded empty input and the
\* padded "a", and a chunk of digits.
RawChunks ==
  {[ChunkEmpty EXCEPT ![1] = INITIAL_BIT],
   [ChunkEmpty EXCEPT ![1] = 97, ![2] = INITIAL_BIT, ![57] = 8],
   Digits(CHUNK_SIZE_BYTES)}

\* Md5Hasher::new()
InitHasher ==
  /\ entry = "Md5Hasher::new"
  /\ msg = <<>>
  /\ input = <<>>
  /\ FreshLocals(ChunkProcessorDefault.size)
  /\ engines = <<>>
  /\ slice = <<>>
  /\ converted = <<>>
  /\ NoSteps

\* hasher.add_chunk(chunk), of &mut self
AddChunk ==
  /\ entry = "Md5Hasher::new"
  /\ Len(folded) < MaxChunks
  /\ \E chunk \in RawChunks :
     \E added \in {add_chunk(hasher, chunk)} :
         /\ hasher' = added
         /\ folded' = Append(folded, chunk)
  /\ UNCHANGED <<entry, msg, prior, input, phase, digest, processor_vars,
                 cursor, chunk_provider, chunk_buffer, other_vars>>

\* A faulty compute: the hasher it has read is left as a new one.
Compute_resetting ==
  /\ entry = "Md5Hasher::new"
  /\ digest' = compute(hasher)
  /\ hasher' = Md5HasherNew
  /\ UNCHANGED <<entry, msg, prior, input, phase, folded, processor_vars,
                 cursor, chunk_provider, chunk_buffer, other_vars>>

\* hasher.compute(), of &self: the hasher is left as it was, and usable.
Compute ==
  /\ entry = "Md5Hasher::new"
  /\ digest' = compute(hasher)
  /\ UNCHANGED <<entry, msg, prior, input, phase, folded, processor_vars,
                 hash_vars, other_vars>>

NextHasher ==
  \/ AddChunk
  \/ Compute

SpecHasher == InitHasher /\ [][NextHasher]_vars

(***************************************************************************)
(* Two processors, each owned by its caller, their calls interleaved       *)
(***************************************************************************)
\* The most update calls made on one processor.
MaxEngineCalls == 2

\* The lengths of the pieces given to update: short of a chunk, and a chunk.
EnginePieces == {7, CHUNK_SIZE_BYTES}

Engines == {1, 2}

\* The message the caller of processor e takes its bytes from.
EngineMsg(e) ==
  IF e = 1 THEN Digits(MaxInputLen)
  ELSE (MixedAlphabet \o MixedAlphabet) \o Binary

\* ChunkProcessor::default(), with no call made on it yet.  calls holds the
\* lengths of the pieces given to update so far.
EngineDefault ==
  [buffer |-> ChunkProcessorDefault.buffer,
   state |-> ChunkProcessorDefault.state,
   size |-> ChunkProcessorDefault.size,
   calls |-> <<>>, fed |-> 0, phase |-> "Accumulating", digest |-> <<>>]

InitEngines ==
  /\ entry = "Engines"
  /\ msg = <<>>
  /\ input = <<>>
  /\ FreshLocals(ChunkProcessorDefault.size)
  /\ engines = [e \in Engines |-> EngineDefault] \o <<>>
  /\ slice = <<>>
  /\ converted = <<>>
  /\ NoSteps

\* A faulty processor: the buffer is one static shared by every instance.
StoreEngine_shared(all, e, fields) ==
  [x \in Engines |->
     IF x = e THEN fields ELSE [all[x] EXCEPT !.buffer = fields.buffer]] \o <<>>

\* What a call with &mut self, or with self by value, leaves: the fields of
\* processor e as the call left them, every other processor as it was.
StoreEngine(all, e, fields) == [all EXCEPT ![e] = fields]

\* engines[e].update(data), data being the next n bytes of its message.
EngineUpdate(e, n) ==
  /\ entry = "Engines"
  /\ engines[e].phase = "Accumulating"
  /\ Len(engines[e].calls) < MaxEngineCalls
  /\ engines[e].fed + n <= Len(EngineMsg(e))
  /\ \E data \in {SubSeq(EngineMsg(e), engines[e].fed + 1, engines[e].fed + n)} :
     \E call \in {update(engines[e], data)} :
     \E outcome \in Outcomes(call) :
         engines' =
           StoreEngine(engines, e,
             [engines[e] EXCEPT
                !.buffer = outcome.buffer,
                !.state = outcome.state,
                !.size = outcome.size,
                !.calls = Append(@, n),
                !.fed = @ + n,
                !.phase = IF outcome.panic = "none" THEN "Accumulating"
                          ELSE "Panicked"])
  /\ UNCHANGED <<entry, msg, prior, input, phase, folded, digest,
                 processor_vars, hash_vars, slice, converted, step_vars>>

\* engines[e].finalize()
EngineFinalize(e) ==
  /\ entry = "Engines"
  /\ engines[e].phase = "Accumulating"
  /\ \E call \in {finalize(engines[e])} :
     \E outcome \in Outcomes(call) :
         engines' =
           StoreEngine(engines, e,
             [engines[e] EXCEPT
                !.buffer = outcome.buffer,
                !.state = outcome.state,
                !.size = outcome.size,
                !.digest = outcome.raw,
                !.phase = IF outcome.panic = "none" THEN "Finalized"
                          ELSE "Panicked"])
  /\ UNCHANGED <<entry, msg, prior, input, phase, folded, digest,
                 processor_vars, hash_vars, slice, converted, step_vars>>

NextEngines ==
  \/ \E e \in Engines : \E n \in EnginePieces : EngineUpdate(e, n)
  \/ \E e \in Engines : EngineFinalize(e)

SpecEngines == InitEngines /\ [][NextEngines]_vars


(***************************************************************************)
(* advance_step on its own: a caller taking the steps one by one from a    *)
(* state, as the loop of process_chunk does                                *)
(***************************************************************************)
\* The last step of the loop, for step in 1..65.
LAST_STEP == 64

\* The blocks of sixteen words of the chunks in RawChunks.
StepBlocks == {ChunkWords(chunk) : chunk \in RawChunks}

\* The states the loop starts from: that of a new processor, and that of a
\* processor that has folded a chunk of digits.
StepStates ==
  {HashComputeStateDefault,
   process_chunk(HashComputeStateDefault, Digits(CHUNK_SIZE_BYTES))}

\* let mut result = self, before the first step: state holds self, the state
\* that process_chunk is called on, and instance the copy the steps work on.
InitSteps ==
  /\ entry = "advance_step"
  /\ msg = <<>>
  /\ input = <<>>
  /\ prior = ChunkProcessorDefault.size
  /\ buffer = ChunkProcessorDefault.buffer
  /\ state \in StepStates
  /\ size = ChunkProcessorDefault.size
  /\ phase = "Accumulating"
  /\ folded = <<>>
  /\ slices = {}
  /\ tail_len = -1
  /\ zero_fill = 0
  /\ final_folds = 0
  /\ digest = <<>>
  /\ cursor = 0
  /\ chunk_provider = ChunkProviderNew
  /\ chunk_buffer = ChunkEmpty
  /\ hasher = Md5HasherNew
  /\ engines = <<>>
  /\ slice = <<>>
  /\ converted = <<>>
  /\ block \in StepBlocks
  /\ instance = state
  /\ steps = 0

\* instance = instance.advance_step(&block, steps + 1)
AdvanceStep ==
  /\ entry = "advance_step"
  /\ steps < LAST_STEP
  /\ instance' = advance_step(instance, block, steps + 1)
  /\ steps' = steps + 1
  /\ UNCHANGED <<entry, msg, prior, input, phase, folded, digest,
                 processor_vars, hash_vars, engines, slice, converted, block>>

NextSteps == AdvanceStep

SpecSteps == InitSteps /\ [][NextSteps]_vars
(***************************************************************************)
(* Properties                                                              *)
(***************************************************************************)
\* The n bytes of the little-endian encoding of the number value.
RECURSIVE LittleEndian(_, _)
LittleEndian(value, n) ==
  IF n = 0 THEN <<>>
  ELSE <<value % 256>> \o LittleEndian(value \div 256, n - 1)

\* The message S as MD5 pads it: S, the byte 0x80, zero bytes up to 56 modulo
\* 64, and the number of bits of S in eight bytes, least significant first.
PaddedMessage(S) ==
  ((S \o <<128>>) \o [i \in 1..((55 - Len(S)) % 64) |-> 0])
    \o LittleEndian(8 * Len(S), 8)

\* The bytes of a sequence of 64-byte chunks, in order.
Flatten(chunks) ==
  [i \in 1..(64 * Len(chunks)) |->
     chunks[((i - 1) \div 64) + 1][((i - 1) % 64) + 1]] \o <<>>

\* The last chunk folded.
LastFolded == folded[Len(folded)]

\* The whole of S given to a new processor by one update, then finalize: the
\* digest, the chunks folded and the compression state left.
OneCallFrom(fed) ==
  CHOOSE once \in
    {[digest |-> final.raw, folded |-> fed.folds \o final.folds,
      state |-> final.state] : final \in {finalize(fed)}} : TRUE

OneCall(S) ==
  CHOOSE once \in
    {OneCallFrom(fed) : fed \in {update(ChunkProcessorDefault, S)}} : TRUE

\* C1: chunking invariance.  However the input was cut into the pieces given
\* to the successive update calls, finalize returns the digest that one update
\* of the whole input followed by finalize returns, after folding the same
\* chunks and reaching the same compression state.
ChunkingInvariance ==
  (entry = "ChunkProcessor" /\ phase = "Finalized") =>
    \E once \in {OneCall(input)} :
        /\ digest = once.digest
        /\ folded = once.folded
        /\ state = once.state

\* A processor finalized after an input longer than any one piece: it took
\* at least two update calls with bytes in them.
ChunkingInvarianceWitness ==
  /\ entry = "ChunkProcessor"
  /\ phase = "Finalized"
  /\ Len(input) > MaxPiece

\* C2: the padding rule.  For every input S the chunks folded, end to end,
\* are S, then 0x80, then (55 - |S|) mod 64 zero bytes, then 8 * |S| in eight
\* little-endian bytes.
PaddingRule ==
  phase = "Finalized" =>
    /\ Flatten(folded) = PaddedMessage(input)
    /\ Len(Flatten(folded)) % 64 = 0

\* A processor finalized with 62 bytes of input: the zero fill wraps around
\* to 57 bytes.
PaddingRuleWitness ==
  /\ entry = "ChunkProcessor"
  /\ phase = "Finalized"
  /\ input = MixedAlphabet
  /\ Len(Flatten(folded)) = 128

\* C3: the one-block and the two-block path.  finalize folds one chunk when
\* it finds 0..55 bytes in the buffer, and then the marker and the length
\* share the chunk of the tail; it folds two chunks when it finds 56..63.
TailPath ==
  (entry = "ChunkProcessor" /\ phase = "Finalized") =>
    /\ tail_len \in 0..63
    /\ tail_len = Len(input) % 64
    /\ final_folds = IF tail_len <= 55 THEN 1 ELSE 2
    /\ Len(folded) = (Len(input) \div 64) + final_folds
    /\ tail_len <= 55 =>
         /\ SubSeq(LastFolded, 1, tail_len)
              = SubSeq(input, Len(input) - tail_len + 1, Len(input))
         /\ LastFolded[tail_len + 1] = 128
         /\ SubSeq(LastFolded, 57, 64) = LittleEndian(8 * Len(input), 8)

\* finalize found 56 bytes in the buffer and folded two chunks.
TailPathWitness ==
  /\ entry = "ChunkProcessor"
  /\ phase = "Finalized"
  /\ tail_len = 56
  /\ final_folds = 2

\* The chunk that is all padding: 0x80, 55 zero bytes, the bit count.
PurePadding(chunk, bits) ==
  /\ Len(chunk) = 64
  /\ chunk[1] = 128
  /\ \A i \in 2..56 : chunk[i] = 0
  /\ SubSeq(chunk, 57, 64) = LittleEndian(bits, 8)

\* C4: finalize with an empty buffer still folds one chunk, which is all
\* padding: byte 0 is 0x80, bytes 1..55 are zero, bytes 56..63 hold the length;
\* for the empty input the eight length bytes are zero.  Md5Hasher::hash folds
\* the same chunk when its input ends on a chunk boundary.
EmptyBufferFinalize ==
  /\ (entry = "ChunkProcessor" /\ phase = "Finalized" /\ tail_len = 0) =>
       /\ final_folds = 1
       /\ PurePadding(LastFolded, 8 * Len(input))
       /\ input = <<>> =>
            /\ folded = <<LastFolded>>
            /\ \A i \in 57..64 : LastFolded[i] = 0
  /\ (entry = "Md5Hasher" /\ phase = "Finalized" /\ Len(input) % 64 = 0) =>
       /\ PurePadding(LastFolded, 8 * Len(input))
       /\ Len(folded) = (Len(input) \div 64) + 1

\* finalize called on a processor that was given no byte at all.
EmptyBufferFinalizeWitness ==
  /\ entry = "ChunkProcessor"
  /\ phase = "Finalized"
  /\ input = <<>>
  /\ tail_len = 0

\* C5: an input of exactly 64 bytes is folded as two chunks: the 64 bytes, by
\* update, and one chunk that is all padding with the length 512, by finalize.
OneChunkInput ==
  (entry = "ChunkProcessor" /\ phase = "Finalized" /\ Len(input) = 64) =>
    /\ final_folds = 1
    /\ folded = <<input, (<<128>> \o [i \in 1..55 |-> 0])
                           \o <<0, 2, 0, 0, 0, 0, 0, 0>>>>
    /\ input = Digits(64) =>
         HashDisplay(digest) = "eb6c4179c0a7c82cc2828c1e6338e165"

\* A processor finalized after the 64 digits of the fixture.
OneChunkInputWitness ==
  /\ entry = "ChunkProcessor"
  /\ phase = "Finalized"
  /\ input = Digits(64)
  /\ Len(folded) = 2

\* C6: the vectors of RFC 1321.  The empty string, "a", "abc", "message
\* digest", the lowercase alphabet and the mixed alphabet with digits have the
\* published digests, by ChunkProcessor and by Md5Hasher::hash alike.
KnownVectors ==
  phase = "Finalized" =>
    /\ input = <<>> => HashDisplay(digest) = "d41d8cd98f00b204e9800998ecf8427e"
    /\ input = <<97>> => HashDisplay(digest) = "0cc175b9c0f1b6a831c399e269772661"
    /\ input = <<97, 98, 99>> =>
         HashDisplay(digest) = "900150983cd24fb0d6963f7d28e17f72"
    /\ input = MessageDigest =>
         HashDisplay(digest) = "f96b697d7cb7938d525a2f31aaf161d0"
    /\ input = LowerAlphabet =>
         HashDisplay(digest) = "c3fcd3d76192e4007dfb496cca67e13b"
    /\ input = MixedAlphabet =>
         HashDisplay(digest) = "d174ab98d277d9f5a5611c2c9f419d9f"

\* Md5Hasher::hash has returned the digest of "abc".
KnownVectorsWitness ==
  /\ entry = "Md5Hasher"
  /\ phase = "Finalized"
  /\ input = <<97, 98, 99>>
  /\ Len(digest) = 16

\* C7: the buffer bound.  After every update call of a processor the buffer
\* holds between 0 and 63 bytes.
BufferBound ==
  (entry = "ChunkProcessor" /\ phase = "Accumulating") =>
    (Len(buffer) >= 0 /\ Len(buffer) <= 63)

\* update has returned leaving 63 bytes in the buffer, after folding a chunk.
BufferBoundWitness ==
  /\ entry = "ChunkProcessor"
  /\ phase = "Accumulating"
  /\ Len(buffer) = 63
  /\ Len(folded) = 1

\* C8: the core never fails.  Whatever the lengths of the pieces given to
\* update, zero included, no call panics: every slice handed to
\* Chunk::try_from is 64 bytes long, and the zero fill that finalize asks for
\* has a length that is not negative.
NeverFails ==
  entry = "ChunkProcessor" =>
    /\ phase # "Panicked"
    /\ slices \subseteq {64}
    /\ zero_fill >= 0

\* finalize has returned after finding 63 bytes in the buffer: the zero fill
\* was of no byte, and both chunks came through Chunk::try_from.
NeverFailsWitness ==
  /\ entry = "ChunkProcessor"
  /\ phase = "Finalized"
  /\ tail_len = 63
  /\ zero_fill = 0
  /\ slices = {64}

\* C9: the length field.  Bytes 56..63 of the last chunk finalize folds hold
\* the number of bits of the whole input, eight times the number of bytes
\* given to the update calls, least significant byte first.
LengthField ==
  (entry = "ChunkProcessor" /\ phase = "Finalized") =>
    /\ SubSeq(LastFolded, 57, 64) = LittleEndian(8 * Len(input), 8)
    /\ LastFolded[57] = (8 * Len(input)) % 256
    /\ LastFolded[58] = (8 * Len(input)) \div 256

\* A length of more than 255 bits: byte 57 is not zero.
LengthFieldWitness ==
  /\ entry = "ChunkProcessor"
  /\ phase = "Finalized"
  /\ LastFolded[58] > 0
  /\ LastFolded[57] > 0

\* The bits of the whole chunks of the input, added to the bits counted
\* before: the sum modulo 2^64, and whether the sum is 2^64 or more.
TotalBits == Add64(prior, AsU64(8 * CHUNK_SIZE_BYTES * (Len(input) \div CHUNK_SIZE_BYTES)))

\* C10: the bit counter wraps.  Once the bits consumed are more than 2^64 - 1,
\* update and finalize still complete and the counter holds the number of
\* bits consumed modulo 2^64.
CounterWraps ==
  (entry = "ChunkProcessor" /\ TotalBits.overflow) =>
    /\ phase # "Panicked"
    /\ phase = "Accumulating" => size = TotalBits.value

\* The build without overflow checks: update has returned, the counter past
\* 2^64 and holding the sum modulo 2^64.
CounterWrapsWitness ==
  /\ entry = "ChunkProcessor"
  /\ phase = "Accumulating"
  /\ TotalBits.overflow
  /\ size = TotalBits.value

\* C12: the readable source.  Whatever the sizes, from 1 to 64 bytes, of the
\* reads by which the source delivers its bytes before it returns 0, the
\* chunks folded when the digest is returned are the padded message of all
\* the bytes delivered.
ReadsFeedAll ==
  (entry = "Md5Hasher" /\ phase = "Finalized") =>
    /\ Flatten(folded) = PaddedMessage(input)
    /\ Len(folded) = (Len(input) + 8) \div 64 + 1

\* The source delivered the 8 bytes of Binary in more than one read: three
\* chunks were folded before the digest was returned.
ReadsFeedAllWitness ==
  /\ entry = "Md5Hasher"
  /\ phase = "Finalized"
  /\ input = Binary
  /\ Len(folded) = 3

\* C13: a failed read.  When a read of the source fails, hash returns the
\* error and no digest: the failing read folds no chunk, no read and no fold
\* follows it, and a digest is returned only after every read up to the end
\* of the input has succeeded.
ReadFailure ==
  [][/\ phase # "ReadError"
     /\ phase' = "ReadError" =>
          /\ digest' = <<>>
          /\ folded' = folded
          /\ hasher' = hasher
          /\ cursor' = cursor
     /\ (entry = "Md5Hasher" /\ digest' # <<>>) =>
          /\ phase' = "Finalized"
          /\ cursor' = Len(input)
          /\ chunk_provider'.padding_state = "Done"
          /\ Len(digest') = 16]_vars

\* A read failed after two reads that succeeded; no digest was returned.
ReadFailureWitness ==
  /\ entry = "Md5Hasher"
  /\ phase = "ReadError"
  /\ Len(folded) = 2
  /\ cursor > 0
  /\ cursor < Len(input)
  /\ digest = <<>>

\* C14: the lifecycle.  A digest comes only from the operation that ends the
\* engine: whenever a digest has been returned the engine is Finalized, and
\* from then on nothing is folded and no other digest is returned.
DigestEndsEngine ==
  [][/\ digest' # <<>> => phase' = "Finalized"
     /\ digest # <<>> => (folded' = folded /\ digest' = digest)]_vars

\* compute has returned a digest and add_chunk has then given the hasher one
\* more chunk.
DigestEndsEngineWitness ==
  /\ entry = "Md5Hasher::new"
  /\ phase = "Accumulating"
  /\ digest # <<>>
  /\ digest # compute(hasher)
  /\ Len(folded) = 1

\* The fields of a processor after update calls made on it alone, from
\* ChunkProcessor::default(): the pieces of the lengths of calls, from index
\* on, taken from data.
RECURSIVE AloneFrom(_, _, _, _)
AloneFrom(fields, data, calls, index) ==
  IF index > Len(calls)
  THEN [buffer |-> fields.buffer, state |-> fields.state, size |-> fields.size]
  ELSE CHOOSE result \in
         {AloneFrom(next, SubSeq(data, calls[index] + 1, Len(data)), calls,
                    index + 1) :
            next \in {update(fields, SubSeq(data, 1, calls[index]))}} : TRUE

\* The processor left by the update calls, after finalize when finalized is
\* true: its fields and the digest returned.
AloneEnd(fed, finalized) ==
  IF finalized
  THEN CHOOSE result \in
         {[fields |-> [buffer |-> final.buffer, state |-> final.state,
                       size |-> final.size],
           digest |-> final.raw] : final \in {finalize(fed)}} : TRUE
  ELSE [fields |-> fed, digest |-> <<>>]

\* Processor e run alone: its fields after its update calls and, once it is
\* finalized, after finalize, with the digest.
Alone(e) ==
  CHOOSE result \in
    {AloneEnd(fed, engines[e].phase = "Finalized") :
       fed \in {AloneFrom(ChunkProcessorDefault, EngineMsg(e),
                          engines[e].calls, 1)}} : TRUE

\* C15: independent engines.  However the update and finalize calls of two
\* processors are interleaved, each has the buffer, the counter, the
\* compression state and the digest that its own calls give when run alone.
EnginesIndependent ==
  entry = "Engines" =>
    \A e \in Engines :
      \E alone \in {Alone(e)} :
          /\ engines[e].buffer = alone.fields.buffer
          /\ engines[e].size = alone.fields.size
          /\ engines[e].state = alone.fields.state
          /\ engines[e].digest = alone.digest

\* Processor 2 was updated between the two updates of processor 1, and
\* finalized before it; both have bytes in their buffers.
EnginesIndependentWitness ==
  /\ entry = "Engines"
  /\ engines[1].calls = <<7, 64>>
  /\ engines[2].calls = <<64, 7>>
  /\ engines[2].phase = "Finalized"
  /\ engines[1].phase = "Accumulating"
  /\ engines[1].buffer # <<>>

\* C16: Chunk::try_from.  The conversion succeeds exactly when the slice has
\* 64 bytes, and the chunk then holds the bytes of the slice; for a slice of
\* any other length, shorter or longer, it fails with InvalidSize of that
\* length.
ExactSlice ==
  converted # <<>> =>
    /\ converted[1].ok <=> Len(slice) = 64
    /\ converted[1].ok => converted[1].chunk = slice
    /\ ~converted[1].ok => converted[1].InvalidSize = Len(slice)

\* A slice of 65 bytes has been refused.
ExactSliceWitness ==
  /\ converted # <<>>
  /\ Len(slice) = 65
  /\ ~converted[1].ok
  /\ converted[1].InvalidSize = 65

\* C17: the fresh engine.  A processor on which no update has consumed a byte
\* has the compression state A = 0x67452301, B = 0xefcdab89, C = 0x98badcfe,
\* D = 0x10325476, an empty buffer and a bit counter of 0.
FreshEngine ==
  (entry = "ChunkProcessor" /\ phase = "Accumulating" /\ input = <<>>) =>
    /\ state.a = <<6 * 4096 + 7 * 256 + 4 * 16 + 5, 2 * 4096 + 3 * 256 + 0 * 16 + 1>>
    /\ state.b = <<14 * 4096 + 15 * 256 + 12 * 16 + 13, 10 * 4096 + 11 * 256 + 8 * 16 + 9>>
    /\ state.c = <<9 * 4096 + 8 * 256 + 11 * 16 + 10, 13 * 4096 + 12 * 256 + 15 * 16 + 14>>
    /\ state.d = <<1 * 4096 + 0 * 256 + 3 * 16 + 2, 5 * 4096 + 4 * 256 + 7 * 16 + 6>>
    /\ buffer = <<>>
    /\ Len(buffer) = 0
    /\ size = <<0, 0, 0, 0>>

\* ChunkProcessor::default() has returned and no call has followed.
FreshEngineWitness ==
  /\ entry = "ChunkProcessor"
  /\ phase = "Accumulating"
  /\ input = <<>>
  /\ folded = <<>>
  /\ slices = {}
  /\ tail_len = -1

\* The lowercase hexadecimal digit of a number below 16.
LowerHexDigit(n) ==
  CASE n = 0 -> "0" [] n = 1 -> "1" [] n = 2 -> "2" [] n = 3 -> "3"
    [] n = 4 -> "4" [] n = 5 -> "5" [] n = 6 -> "6" [] n = 7 -> "7"
    [] n = 8 -> "8" [] n = 9 -> "9" [] n = 10 -> "a" [] n = 11 -> "b"
    [] n = 12 -> "c" [] n = 13 -> "d" [] n = 14 -> "e" [] n = 15 -> "f"

\* The two digits of byte i of the digest, the high one first.
DigestPair(i) ==
  LowerHexDigit(digest[i] \div 16) \o LowerHexDigit(digest[i] % 16)

\* C18: the text of a digest.  It has 32 characters: for each of the 16 bytes
\* in order, the two lowercase hexadecimal digits of the byte, a byte below
\* 16 written with a leading zero, and nothing between the bytes.
DigestText ==
  phase = "Finalized" =>
    /\ Len(digest) = 16
    /\ Len(HashDisplay(digest)) = 32
    /\ HashDisplay(digest) =
         DigestPair(1) \o DigestPair(2) \o DigestPair(3) \o DigestPair(4)
           \o DigestPair(5) \o DigestPair(6) \o DigestPair(7) \o DigestPair(8)
           \o DigestPair(9) \o DigestPair(10) \o DigestPair(11) \o DigestPair(12)
           \o DigestPair(13) \o DigestPair(14) \o DigestPair(15) \o DigestPair(16)

\* A digest with a byte below 16 and a byte with a letter for a digit: the
\* digest of the empty input, d41d8cd98f00b204e9800998ecf8427e.
DigestTextWitness ==
  /\ phase = "Finalized"
  /\ input = <<>>
  /\ digest[6] = 0
  /\ digest[8] = 4
  /\ digest[1] = 13 * 16 + 4

\* Window k of the input: bytes 64 * (k - 1) + 1 .. 64 * k.
InputWindow(k) == SubSeq(input, 64 * (k - 1) + 1, 64 * k)

\* C19: the stream prefix.  After update calls that gave n bytes in all, the
\* chunks folded are the first n div 64 windows of 64 bytes of the input, in
\* the order of the stream, and the buffer holds the last n mod 64 bytes.
StreamPrefix ==
  (entry = "ChunkProcessor" /\ phase = "Accumulating") =>
    /\ Len(folded) = Len(input) \div 64
    /\ \A k \in 1..Len(folded) : folded[k] = InputWindow(k)
    /\ Len(buffer) = Len(input) % 64
    /\ buffer = SubSeq(input, Len(input) - (Len(input) % 64) + 1, Len(input))

\* Two windows folded and two bytes kept, the windows differing from each
\* other.
StreamPrefixWitness ==
  /\ entry = "ChunkProcessor"
  /\ phase = "Accumulating"
  /\ Len(input) = 130
  /\ Len(folded) = 2
  /\ folded[1] # folded[2]
  /\ Len(buffer) = 2

\* The number a 64-bit counter holds, when below 2^30; -1 otherwise.
CounterValue(counter) ==
  IF counter[1] = 0 /\ counter[2] = 0 /\ counter[3] < 2 ^ 14
  THEN counter[3] * (2 ^ 16) + counter[4]
  ELSE -1

\* C20: the bit counter.  After any update calls the counter is 512 times the
\* number of chunks folded, and the counter plus 8 times the length of the
\* buffer is 8 times the number of bytes given; the chunks finalize folds
\* leave the counter as it was.
CounterAccounting ==
  entry = "ChunkProcessor" =>
    /\ phase = "Accumulating" =>
         /\ CounterValue(size) = 512 * Len(folded)
         /\ CounterValue(size) + 8 * Len(buffer) = 8 * Len(input)
    /\ phase = "Finalized" =>
         CounterValue(size) = 512 * (Len(folded) - final_folds)

\* finalize has folded two chunks after update folded one: the counter holds
\* the bits of one chunk.
CounterAccountingWitness ==
  /\ entry = "ChunkProcessor"
  /\ phase = "Finalized"
  /\ final_folds = 2
  /\ Len(folded) = 3
  /\ CounterValue(size) = 512


\* The bytes that the step gives to update: what it appends to the input.
DataGiven == SubSeq(input', Len(input) + 1, Len(input'))

\* A step of update: a step of a processor that no finalize has ended.
UpdateStep ==
  /\ entry = "ChunkProcessor"
  /\ phase = "Accumulating"
  /\ tail_len' = -1

\* C21: an update that completes no block.  When the buffered bytes and the
\* data together are fewer than 64, update leaves the compression state and
\* the bit counter as they were, folds nothing, and the buffer becomes the old
\* buffer followed by the data.
ShortUpdate ==
  [][(UpdateStep /\ Len(buffer) + Len(DataGiven) < 64) =>
       /\ state' = state
       /\ size' = size
       /\ folded' = folded
       /\ buffer' = buffer \o DataGiven
       /\ phase' = "Accumulating"]_vars

\* A processor given 63 bytes of binary input: every update so far completed
\* no block, and the processor is as new but for its buffer.
ShortUpdateWitness ==
  /\ entry = "ChunkProcessor"
  /\ phase = "Accumulating"
  /\ Len(input) = 63
  /\ buffer = input
  /\ folded = <<>>
  /\ state = HashComputeStateDefault
  /\ size = AsU64(0)

\* The chunk that finalize folded first, when it folded two.
PaddingChunk == folded[Len(folded) - 1]

\* C22: the two-block path of finalize.  When finalize finds 56..63 bytes in
\* the buffer, the first chunk it folds is the tail, 0x80 and zero bytes, with
\* no length in it; the second has bytes 0..55 zero and bytes 56..63 equal to
\* the length field, so that the marker written at index tail_len of the
\* second chunk is not in the chunk folded.
TwoBlockPath ==
  (entry = "ChunkProcessor" /\ phase = "Finalized" /\ tail_len \in 56..63) =>
    /\ final_folds = 2
    /\ PaddingChunk =
         (SubSeq(input, Len(input) - tail_len + 1, Len(input)) \o <<128>>)
           \o [i \in 1..(63 - tail_len) |-> 0]
    /\ \A i \in 1..56 : LastFolded[i] = 0
    /\ SubSeq(LastFolded, 57, 64) = LittleEndian(8 * Len(input), 8)
    /\ LastFolded[tail_len + 1] = LittleEndian(8 * Len(input), 8)[tail_len - 55]

\* finalize found 63 bytes after one chunk of input: the marker written at
\* index 63 of the second chunk gave way to the last byte of the length, 0.
TwoBlockPathWitness ==
  /\ entry = "ChunkProcessor"
  /\ phase = "Finalized"
  /\ Len(input) = 127
  /\ tail_len = 63
  /\ final_folds = 2
  /\ PaddingChunk[64] = 128
  /\ LastFolded[64] = 0

\* The sum of two words modulo 2^32, from their 16-bit halves.
SumMod32(x, y) ==
  <<(x[1] + y[1] + ((x[2] + y[2]) \div 65536)) % 65536, (x[2] + y[2]) % 65536>>

RECURSIVE StepsInOrder(_, _, _, _)
\* The state after the steps first..last, taken one after the other from pre.
StepsInOrder(pre, words, first, last) ==
  IF first > last THEN pre
  ELSE IF first = last THEN advance_step(pre, words, first)
  ELSE CHOOSE after \in
         {StepsInOrder(half, words, ((first + last) \div 2) + 1, last) :
            half \in {StepsInOrder(pre, words, first,
                                   (first + last) \div 2)}} : TRUE

\* The words before the loop added to the words after step 64.
FedForward(pre, chunk) ==
  CHOOSE sum \in
    {[a |-> SumMod32(pre.a, post.a), b |-> SumMod32(pre.b, post.b),
      c |-> SumMod32(pre.c, post.c), d |-> SumMod32(pre.d, post.d)] :
       post \in {StepsInOrder(pre, ChunkWords(chunk), 1, 64)}} : TRUE

RECURSIVE StateAfter(_)
\* The state of a new processor after the first k chunks it folded.
StateAfter(k) ==
  IF k = 0 THEN HashComputeStateDefault
  ELSE CHOOSE next \in
         {FedForward(pre, folded[k]) : pre \in {StateAfter(k - 1)}} : TRUE

\* C23: feed-forward.  Each chunk folded takes the state to the sum, word by
\* word and modulo 2^32, of the words before the loop and the words after the
\* steps 1..64 run in order from them; the words before the loop are those
\* the chunk before left, untouched by the loop.
FeedForward ==
  (entry = "ChunkProcessor" /\ phase \in {"Accumulating", "Finalized"}) =>
    state = StateAfter(Len(folded))

\* The empty input finalized: the one chunk folded is 0x80 and zeros, the
\* words after step 64 are 7246fad3 14e45506 ff4ea3eb 6e10a476, and the state
\* is d98c1dd4 04b2008f 980980e9 7e42f8ec, their sum with the initial words.
FeedForwardWitness ==
  /\ entry = "ChunkProcessor"
  /\ phase = "Finalized"
  /\ folded = <<[i \in 1..64 |-> IF i = 1 THEN 128 ELSE 0]>>
  /\ StepsInOrder(HashComputeStateDefault, ChunkWords(folded[1]), 1, 64)
       = [a |-> <<29254, 64211>>, b |-> <<5348, 21766>>,
          c |-> <<65358, 41963>>, d |-> <<28176, 42102>>]
  /\ state = [a |-> <<55692, 7636>>, b |-> <<1202, 143>>,
              c |-> <<38921, 33001>>, d |-> <<32322, 63724>>]

\* The word that step s recomputes.
Target(s) == <<"a", "d", "c", "b">>[((s - 1) % 4) + 1]

\* The word that follows a word in the cyclic order a, b, c, d, a.
Following(word) ==
  CASE word = "a" -> "b"
    [] word = "b" -> "c"
    [] word = "c" -> "d"
    [] word = "d" -> "a"

\* A word rotated left by one bit.
RotL1(x) ==
  <<((2 * x[1]) % 65536) + (x[2] \div 32768),
    ((2 * x[2]) % 65536) + (x[1] \div 32768)>>

RECURSIVE RotL32(_, _)
\* A word rotated left by r bits.
RotL32(x, r) == IF r = 0 THEN x ELSE RotL32(RotL1(x), r - 1)

\* The table of the standard algorithm for i = s - 1: the index of the word
\* of the message, the rotation, and the auxiliary function applied.
StandardIndex(i) ==
  CASE i \div 16 = 0 -> i
    [] i \div 16 = 1 -> (5 * i + 1) % 16
    [] i \div 16 = 2 -> (3 * i + 5) % 16
    [] i \div 16 = 3 -> (7 * i) % 16

StandardRotation(i) ==
  <<<<7, 12, 17, 22>>, <<5, 9, 14, 20>>, <<4, 11, 16, 23>>, <<6, 10, 15, 21>>>>
    [(i \div 16) + 1][(i % 4) + 1]

StandardAux(i, x, y, z) ==
  CASE i \div 16 = 0 -> aux_fun_f(x, y, z)
    [] i \div 16 = 1 -> aux_fun_g(x, y, z)
    [] i \div 16 = 2 -> aux_fun_h(x, y, z)
    [] i \div 16 = 3 -> aux_fun_i(x, y, z)

\* The value step s gives its target, the words being target, x, y, z in
\* the cyclic order from the target.
StepValue(i, target, x, y, z, words) ==
  SumMod32(
    RotL32(
      SumMod32(SumMod32(SumMod32(target, StandardAux(i, x, y, z)),
                        words[StandardIndex(i) + 1]),
               SINE_TABLE[i + 1]),
      StandardRotation(i)),
    x)

\* C24: the effect of one step.  Step s changes at most the word a, d, c, b
\* for (s - 1) mod 4 = 0, 1, 2, 3; the word becomes
\* rotl32(target + aux(x, y, z) + M[k] + K[s - 1], r) + x, the sums modulo
\* 2^32 and x, y, z the words that follow the target in the cyclic order;
\* the three other words are carried unchanged.
OneStepEffect ==
  [][steps' = steps + 1 =>
       \E t \in {Target(steps')} :
       \E x \in {Following(t)} :
       \E y \in {Following(x)} :
       \E z \in {Following(y)} :
           /\ instance'[t] =
                StepValue(steps, instance[t], instance[x], instance[y],
                          instance[z], block)
           /\ instance'[x] = instance[x]
           /\ instance'[y] = instance[y]
           /\ instance'[z] = instance[z]
           /\ DOMAIN instance' = {"a", "b", "c", "d"}]_vars

\* Step 2 taken on the padded empty input from the initial words: d is
\* f59592dd, a keeps the a5202774 step 1 gave it, b and c are the initial
\* words.
OneStepEffectWitness ==
  /\ entry = "advance_step"
  /\ state = HashComputeStateDefault
  /\ block = <<<<0, 128>>>> \o [k \in 1..15 |-> <<0, 0>>]
  /\ steps = 2
  /\ instance = [a |-> <<42272, 10100>>, b |-> <<61389, 43913>>,
                 c |-> <<39098, 56574>>, d |-> <<62869, 37597>>]

\* One step of the standard algorithm on the four words <<A, B, C, D>>, which
\* change roles at every step: A takes D, B takes B plus the rotated sum, C
\* takes B and D takes C.
StandardStep(w, i, words) ==
  <<w[4],
    SumMod32(w[2],
      RotL32(
        SumMod32(SumMod32(SumMod32(w[1], StandardAux(i, w[2], w[3], w[4])),
                          words[StandardIndex(i) + 1]),
                 SINE_TABLE[i + 1]),
        StandardRotation(i))),
    w[2],
    w[3]>>

RECURSIVE StandardSteps(_, _, _, _)
\* The four words after the steps first..last of the standard algorithm,
\* taken in order from w.
StandardSteps(w, words, first, last) ==
  IF first > last THEN w
  ELSE IF first = last THEN StandardStep(w, first - 1, words)
  ELSE CHOOSE after \in
         {StandardSteps(half, words, ((first + last) \div 2) + 1, last) :
            half \in {StandardSteps(w, words, first,
                                    (first + last) \div 2)}} : TRUE

\* The fields that hold A, B, C, D of the standard algorithm after count
\* steps.
RolesAfter(count) ==
  CASE count % 4 = 0 -> <<"a", "b", "c", "d">>
    [] count % 4 = 1 -> <<"d", "a", "b", "c">>
    [] count % 4 = 2 -> <<"c", "d", "a", "b">>
    [] count % 4 = 3 -> <<"b", "c", "d", "a">>

\* The block of the padded empty input.
EmptyStringBlock == <<<<0, 128>>>> \o [k \in 1..15 |-> <<0, 0>>]

\* States of test_compute_state_advance_empty_string: the words after 16, 20,
\* 24 and 64 steps on the block of the padded empty input.
KnownSteps ==
  {<<16, [a |-> <<62828, 31985>>, b |-> <<54913, 40042>>,
         c |-> <<23205, 16245>>, d |-> <<14153, 17319>>]>>,
   <<20, [a |-> <<7293, 29971>>, b |-> <<48504, 11799>>,
         c |-> <<49301, 61754>>, d |-> <<31701, 31290>>]>>,
   <<24, [a |-> <<15646, 15980>>, b |-> <<58402, 21274>>,
         c |-> <<60225, 25662>>, d |-> <<26807, 46051>>]>>,
   <<64, [a |-> <<29254, 64211>>, b |-> <<5348, 21766>>,
         c |-> <<65358, 41963>>, d |-> <<28176, 42102>>]>>}

\* C25: the table of the steps.  After any number of steps the words are
\* those of the standard algorithm run with, for i = s - 1, the function F,
\* G, H, I for i div 16 = 0, 1, 2, 3, the word of the message at i,
\* (5i + 1) mod 16, (3i + 5) mod 16, 7i mod 16, the rotation at i mod 4 of
\* [7,12,17,22], [5,9,14,20], [4,11,16,23], [6,10,15,21], and the constant
\* K[i]; on the padded empty input they are the words published for it.
StepTable ==
  entry = "advance_step" =>
    /\ \E w \in {StandardSteps(<<state.a, state.b, state.c, state.d>>,
                               block, 1, steps)} :
       \E roles \in {RolesAfter(steps)} :
           \A n \in 1..4 : instance[roles[n]] = w[n]
    /\ (state = HashComputeStateDefault /\ block = EmptyStringBlock) =>
         \A known \in KnownSteps : steps = known[1] => instance = known[2]

\* All 64 steps taken on a block of digits, from the state a chunk of digits
\* left: neighbouring words of the block differ, and each of the four rounds
\* has run.
StepTableWitness ==
  /\ entry = "advance_step"
  /\ state # HashComputeStateDefault
  /\ block = ChunkWords(Digits(64))
  /\ \A k \in 1..15 : block[k] # block[k + 1]
  /\ steps = 64
  /\ instance # state


\* The four bytes of a word, least significant first.
WordBytes(word) == LittleEndian(word[2], 2) \o LittleEndian(word[1], 2)

\* LE(A) ++ LE(B) ++ LE(C) ++ LE(D)
StateBytes(words) ==
  ((WordBytes(words.a) \o WordBytes(words.b)) \o WordBytes(words.c))
    \o WordBytes(words.d)

\* "a" as MD5 pads it: one block.
PaddedA == PaddedMessage(<<97>>)

\* C26: Md5Hasher by its methods.  add_chunk folds the 64 bytes it is given
\* as one block, as they are, and returns no digest; compute returns the
\* bytes LE(A) ++ LE(B) ++ LE(C) ++ LE(D) of the state and leaves the hasher
\* as it was, so that a compute that follows returns the same bytes; after
\* the one block of a padded message it is the digest of the message.
HasherMethods ==
  [][entry = "Md5Hasher::new" =>
       /\ folded' # folded =>
            /\ Len(folded') = Len(folded) + 1
            /\ SubSeq(folded', 1, Len(folded)) = folded
            /\ hasher'.state = FedForward(hasher.state, folded'[Len(folded')])
            /\ digest' = digest
       /\ folded' = folded =>
            /\ hasher' = hasher
            /\ digest' = StateBytes(hasher.state)
            /\ digest' = StateBytes(hasher'.state)
            /\ folded = <<PaddedA>> =>
                 HashDisplay(digest') = "0cc175b9c0f1b6a831c399e269772661"]_vars

\* The hasher was given the one block of the padded "a", and compute has
\* returned the digest of "a".
HasherMethodsWitness ==
  /\ entry = "Md5Hasher::new"
  /\ folded = <<PaddedA>>
  /\ digest = StateBytes(hasher.state)
  /\ HashDisplay(digest) = "0cc175b9c0f1b6a831c399e269772661"

\* A turn of the loop of hash in which the source returned 0 bytes.
ZeroRead ==
  /\ entry = "Md5Hasher"
  /\ phase = "Accumulating"
  /\ cursor = Len(input)
  /\ cursor' = cursor
  /\ phase' # "ReadError"

\* C27: the end of the reader loop.  A read of 0 bytes makes read emit one
\* block, and leave the padding Done, when the padding is not Done yet, and
\* return None when it is: with a source that keeps returning 0 at most one
\* more block is emitted and the second read of 0 bytes at the latest returns
\* None.  None is returned only with the padding Done, and once the source
\* is at its end the loop of hash ends.
ReaderLoopEnds ==
  /\ [][/\ (ZeroRead /\ chunk_provider.padding_state # "Done") =>
             /\ Len(folded') = Len(folded) + 1
             /\ SubSeq(folded'[Len(folded')], 57, 64)
                  = LittleEndian(8 * Len(input), 8)
             /\ chunk_provider'.padding_state = "Done"
             /\ phase' = "Accumulating"
        /\ (ZeroRead /\ chunk_provider.padding_state = "Done") =>
             /\ folded' = folded
             /\ phase' = "Finalized"
        /\ (entry = "Md5Hasher" /\ phase # "Finalized"
              /\ phase' = "Finalized") =>
             /\ chunk_provider.padding_state = "Done"
             /\ cursor = Len(input)]_vars
  /\ (entry = "Md5Hasher" /\ cursor = Len(input)) ~> (phase # "Accumulating")

\* hash has returned for an input of 63 bytes: the read of 63 bytes left the
\* padding at Length, the first read of 0 bytes emitted the block of the
\* length, and the second returned None.
ReaderLoopEndsWitness ==
  /\ entry = "Md5Hasher"
  /\ phase = "Finalized"
  /\ Len(input) = 63
  /\ Len(folded) = 2
  /\ \A i \in 1..56 : folded[2][i] = 0
  /\ chunk_provider.padding_state = "Done"

\* C28: the two implementations agree.  For every input, read from a Cursor
\* that fills each read with 64 bytes until fewer remain, the blocks that
\* ChunkProvider::read has emitted when it returns None are, in number, order
\* and content, the blocks that a ChunkProcessor folds when it is given the
\* input by one update and then finalized.
ProviderAgrees ==
  (entry = "Md5Hasher" /\ phase = "Finalized") =>
    \E once \in {OneCall(input)} :
        /\ Len(folded) = Len(once.folded)
        /\ \A k \in 1..Len(folded) : folded[k] = once.folded[k]

\* hash has returned for an input of 120 bytes: one whole block, a block that
\* ends the input with the marker, and the block of the length.
ProviderAgreesWitness ==
  /\ entry = "Md5Hasher"
  /\ phase = "Finalized"
  /\ Len(input) = 120
  /\ Len(folded) = 3
  /\ folded[2][57] = 128
  /\ folded[3][1] = 0
  /\ folded[3][57] = 192
  /\ folded[3][58] = 3

\* C29: update with no data.  In every state a processor can reach, update
\* given an empty input folds nothing, fails nowhere, and leaves the buffer,
\* the bit counter and the compression state as they are; a partition of the
\* input that has empty pieces therefore leaves what the partition without
\* them leaves.
EmptyUpdate ==
  (entry = "ChunkProcessor" /\ phase = "Accumulating") =>
    \E call \in {update(self, <<>>)} :
        /\ call.buffer = buffer
        /\ call.size = size
        /\ call.state = state
        /\ call.folds = <<>>
        /\ call.panic = "none"
        /\ Outcomes(call) = {call}

\* A processor that has folded one chunk and holds 63 bytes: update with no
\* data finds a buffer that one more byte would complete.
EmptyUpdateWitness ==
  /\ entry = "ChunkProcessor"
  /\ phase = "Accumulating"
  /\ Len(folded) = 1
  /\ Len(buffer) = 63
  /\ update(self, <<>>).buffer = buffer
  /\ state # HashComputeStateDefault

\* The number of bits that a length field holds, for fields below 2^24.
BitsOf(field) == field[1] + (256 * field[2]) + (65536 * field[3])

\* The input read back from the length field: the first of the bytes, as
\* many as the last eight of them count.
ByLength(bytes) ==
  SubSeq(bytes, 1, BitsOf(SubSeq(bytes, Len(bytes) - 7, Len(bytes))) \div 8)

\* The place of the marker: the last non-zero byte before the length field.
MarkerAt(bytes) ==
  CHOOSE m \in 1..(Len(bytes) - 8) :
    /\ bytes[m] # 0
    /\ \A i \in (m + 1)..(Len(bytes) - 8) : bytes[i] = 0

\* The input read back from the marker: the bytes before it.
ByMarker(bytes) == SubSeq(bytes, 1, MarkerAt(bytes) - 1)

\* Inputs that begin with S and go on as the padding of S does: with its
\* first byte, its first two bytes, or all of it.
Confusable(S) ==
  {SubSeq(PaddedMessage(S), 1, n) :
     n \in {Len(S) + 1, Len(S) + 2, Len(PaddedMessage(S))}}

\* C30: padding is injective.  The input is read back from the blocks folded,
\* by the length field and by the marker alike, so that two inputs with the
\* same blocks are the same input; and an input that goes on as the padding
\* of another does has other blocks than it.
PaddingInjective ==
  (entry = "ChunkProcessor" /\ phase = "Finalized") =>
    \E bytes \in {Flatten(folded)} :
        /\ \A i \in 60..64 : LastFolded[i] = 0
        /\ ByLength(bytes) = input
        /\ \E m \in 1..(Len(bytes) - 8) : bytes[m] # 0
        /\ bytes[MarkerAt(bytes)] = 128
        /\ ByMarker(bytes) = input
        /\ \A T \in Confusable(input) :
             \E other \in {OneCall(T)} : other.folded # folded

\* The input 00 80, which ends as the padding of the input 00 begins.
PaddingInjectiveWitness ==
  /\ entry = "ChunkProcessor"
  /\ phase = "Finalized"
  /\ input = <<0, 128>>
  /\ folded[1][2] = 128
  /\ folded[1][3] = 128
  /\ folded[1][57] = 16
=============================================================================
